---- MODULE Spec2Model ----
(***************************************************************************)
(* Model of the taylored-highlighter scan (src/src/extension.ts):          *)
(* scanAndProcessAllTayloredFiles walks every patch file of the .taylored  *)
(* directory, every diff file entry of a patch file and every chunk (hunk) *)
(* of an entry, and records per target file one "added" and one "removed"  *)
(* decoration per block of consecutive changes.  One step of the model is  *)
(* one iteration of a loop of the function.                                *)
(***************************************************************************)
EXTENDS Integers, Sequences, FiniteSets, TLC

(***************************************************************************)
(* Bounds of the model.                                                    *)
(***************************************************************************)
\* longest change list of an enumerated chunk
MaxChanges == 3
\* largest oldStart / newStart of an enumerated chunk
MaxStart == 1
\* changes that the chunks of one scan hold in total
MaxScanChanges == 3
\* number of patch files in the .taylored directory
MaxPatchFiles == 2
\* number of chunks of the entry whose walk is taken as a function
MaxHunks == 2

(***************************************************************************)
(* Inputs.                                                                 *)
(***************************************************************************)
\* change.type as parse-diff produces it, plus a type the walk does not know
ChangeTypes == {"normal", "add", "del", "other"}

ChangeLists(n) == UNION {[1..k -> ChangeTypes] : k \in 0..n}

\* the hunk of the block collapsing example: context, 3 adds, 2 dels, context
SampleChunk ==
    [oldStart |-> 10, newStart |-> 10,
     changes |-> <<"normal", "add", "add", "add", "del", "del", "normal">>]

\* the chunks of a scan that walks one chunk: every start pair, every list
Chunks ==
    {[oldStart |-> o, newStart |-> n, changes |-> c] :
        o \in 0..MaxStart, n \in 0..MaxStart, c \in ChangeLists(MaxChanges)}
    \cup {SampleChunk}

\* the chunks of a scan that walks several: lists of at most n changes, the
\* old and the new side starting at the same line
ScanChunks(n) ==
    {[oldStart |-> s, newStart |-> s, changes |-> c] :
        s \in 0..MaxStart, c \in ChangeLists(n)}

NoChunk == [oldStart |-> 0, newStart |-> 0, changes |-> <<>>]

\* files of the workspace that a diff path can resolve to
WorkspaceFiles == {"A.ts", "B.ts"}

\* a diff path is its list of segments: a/A.ts is <<"a", "A.ts">>; a path that
\* is undefined or empty has no segment
Undefined == <<>>
DevNull == <<"/dev/null">>

\* diffFile.from and diffFile.to of the entries parse-diff can return: a
\* modification of a workspace file, a pure deletion, a file that is not in
\* the workspace, an entry with no path
DiffFiles ==
    {[from |-> <<"a", f>>, to |-> <<"b", f>>] : f \in WorkspaceFiles}
    \cup {[from |-> <<"a", "A.ts">>, to |-> DevNull],
          [from |-> <<"a", "gone.ts">>, to |-> <<"b", "gone.ts">>],
          [from |-> Undefined, to |-> Undefined]}

\* the uri string of a target that was not found
NoUri == ""

NoDiffFile == [from |-> Undefined, to |-> Undefined]

\* the entry has no path at all, or its new path is the no-file sentinel
NamesNoFile(df) ==
    \/ df.to = DevNull
    \/ df.to = Undefined /\ df.from \in {Undefined, DevNull}

\* the value of inOrder and permuted before the chunks are walked
NotWalked == [order |-> <<>>, add |-> <<>>, remove |-> <<>>]

VARIABLES
    pc,                    \* where scanAndProcessAllTayloredFiles stands
    fileNameOuter,         \* the patch file being processed (its place in the listing)
    diffFile,              \* the diff file entry being processed
    chunk,                 \* the chunk being walked
    changeIndex,           \* cursor into chunk.changes (zero-based)
    actualNewLineCounter,
    actualOldLineCounter,
    allFileDecorations,    \* target uri -> [adds, removes], the scan's accumulator
    activeDecorations,     \* target uri -> [add, remove], the published registry
    walked,                \* history: changes of the chunks walked in this scan
    addedLines,            \* history: target uri -> zero-based new-file lines
                           \* of the add changes of the chunks walked
    errors,                \* the patch files showErrorMessage was called for
    malformed,             \* input: processing the patch file at hand will throw
    expected,              \* history: the accumulator of the same scan over
                           \* the listing without the patch files that fail
    met,                   \* history: "resolved" when an entry of this scan
                           \* resolved to a target, "failed" when a patch file threw
    hunks,                 \* input of the walk as a function: the chunks of one entry
    inOrder,               \* the maps after the chunks are walked in their order
    permuted,              \* the maps after the chunks are walked in another order
    scans,                 \* invocation -> where it stands and its local variables
    latest,                \* history: the invocation started by the latest event
    overlapped,            \* history: the invocations that were in flight together
                           \* with another one
    command,               \* the taylored CLI command run by runTayloredCommand
    decorationTypes,       \* the generation of the decoration types (its parity)
    deactivated,           \* deactivate has run
    editors                \* visible editor -> the decorations it shows

vars == <<pc, fileNameOuter, diffFile, chunk, changeIndex, actualNewLineCounter,
          actualOldLineCounter, allFileDecorations, activeDecorations, walked,
          addedLines, errors, malformed, expected, met, hunks, inOrder, permuted,
          scans, latest, overlapped, command, decorationTypes, deactivated,
          editors>>

\* the variables of the walk as a function
pureVars == <<hunks, inOrder, permuted>>

\* the variables of the invocations that interleave and of what triggers them
eventVars == <<scans, latest, overlapped, command, decorationTypes, deactivated>>

(***************************************************************************)
(* Maps.  A JavaScript Map<number, DecorationOptions> is the sequence of   *)
(* its values in insertion order; the key of a value is its line.          *)
(***************************************************************************)
EmptyMap == <<>>

Has(map, line) == \E i \in 1..Len(map) : map[i].line = line

Get(map, line) == map[CHOOSE i \in 1..Len(map) : map[i].line = line]

Keys(map) == {map[i].line : i \in 1..Len(map)}

\* the decoration of a block: a whole line range and the hover message's data
Decoration(line, count, fileName) ==
    [line |-> line, endLine |-> line, blockLength |-> count, fileName |-> fileName]

(***************************************************************************)
(* Target resolution (lines 406-417).                                      *)
(***************************************************************************)
\* faulty variant of TargetFilePathRaw: the old path is preferred
TargetFilePathRawFrom(df) == IF df.from # Undefined THEN df.from ELSE df.to

\* diffFile.to || diffFile.from
TargetFilePathRaw(df) == IF df.to # Undefined THEN df.to ELSE df.from

\* targetFilePathRaw.replace(/^[ab]\//, '')
CleanedFilePath(path) ==
    IF Len(path) > 1 /\ path[1] \in {"a", "b"} THEN Tail(path) ELSE path

\* the uri string of the workspace file the path names, NoUri when none does
FindFileInWorkspace(path) ==
    IF Len(path) = 1 /\ path[1] \in WorkspaceFiles THEN path[1] ELSE NoUri

\* the entry is skipped by one of the two continue statements
Skipped(df) ==
    \/ TargetFilePathRaw(df) = Undefined
    \/ TargetFilePathRaw(df) = DevNull
    \/ FindFileInWorkspace(CleanedFilePath(TargetFilePathRaw(df))) = NoUri

TargetUriString(df) == FindFileInWorkspace(CleanedFilePath(TargetFilePathRaw(df)))

(***************************************************************************)
(* The hunk walk (lines 423-485).                                          *)
(***************************************************************************)
\* chunk.changes[i] for a zero-based i
ChangeAt(changes, i) == changes[i + 1]

\* faulty variant of RunEnd: the cursor moves past one change only
RunEndSingle(changes, tempChangeIndex, type) == tempChangeIndex + 1

\* the inner while loop of a branch: tempChangeIndex after the last
\* consecutive change of the given type
RECURSIVE RunEnd(_, _, _)
RunEnd(changes, tempChangeIndex, type) ==
    IF tempChangeIndex < Len(changes) /\ ChangeAt(changes, tempChangeIndex) = type
    THEN RunEnd(changes, tempChangeIndex + 1, type)
    ELSE tempChangeIndex

\* faulty variant of FirstAddedLine: the 1-based line is used as it is
FirstAddedLineNoShift(currentIterationNewLineCounter) == currentIterationNewLineCounter

\* firstAddedLineNumberInNewFile_0_indexed
FirstAddedLine(currentIterationNewLineCounter) == currentIterationNewLineCounter - 1

\* faulty variant of LineToUnderline: the 1-based line is used as it is
LineToUnderlineNoShift(currentIterationNewLineCounter) == currentIterationNewLineCounter

\* lineToUnderlineForDeletionBlock_0_indexed
LineToUnderline(currentIterationNewLineCounter) == currentIterationNewLineCounter - 1

\* faulty variant of AnchorAccepted: line 0 is refused too
AnchorAcceptedPositive(line, count) == line > 0 /\ count > 0

\* the anchor guard of a branch
AnchorAccepted(line, count) == line >= 0 /\ count > 0

\* faulty variant of Recorded: set without the has test, the value of an
\* existing key is replaced in place
RecordedOverwrite(map, line, count, fileName) ==
    IF line >= 0 /\ count > 0
    THEN IF ~Has(map, line)
         THEN Append(map, Decoration(line, count, fileName))
         ELSE [i \in 1..Len(map) |->
                  IF map[i].line = line
                  THEN Decoration(line, count, fileName)
                  ELSE map[i]]
    ELSE map

\* faulty variant of Recorded: a negative line is clamped to line 0
RecordedClamped(map, line, count, fileName) ==
    LET clamped == IF line < 0 THEN 0 ELSE line
    IN IF count > 0 /\ ~Has(map, clamped)
       THEN Append(map, Decoration(clamped, count, fileName))
       ELSE map

\* the map after the guarded set of a branch
Recorded(map, line, count, fileName) ==
    IF AnchorAccepted(line, count)
    THEN IF ~Has(map, line)
         THEN Append(map, Decoration(line, count, fileName))
         ELSE map
    ELSE map

\* faulty variant of WithTarget: every target refers to the same pair of maps
WithTargetShared(all, uri, decs) == [u \in DOMAIN all \cup {uri} |-> decs]

\* allFileDecorations with the maps of one target replaced
WithTarget(all, uri, decs) ==
    [u \in DOMAIN all \cup {uri} |-> IF u = uri THEN decs ELSE all[u]]

Target == TargetUriString(diffFile)

DecorationsForThisTarget == allFileDecorations[Target]

\* faulty variant of BlockLineCount: the block is counted as one line
BlockLineCountOne(changes, index, type) == 1

\* addBlockLineCount / delBlockLineCount: the changes the inner loop consumed
BlockLineCount(changes, index, type) == RunEnd(changes, index, type) - index

\* the invocations that can be in flight together
ScanIds == {"A", "B"}

NoScan == [scan |-> "none", event |-> "none"]

\* the locals of an invocation that has not been called
IdleScan == [pc |-> "idle", fileNameOuter |-> 0, allFileDecorations |-> EmptyMap]

\* the documents shown in visible editors: every file of the workspace
VisibleEditors == WorkspaceFiles

\* lines 535-544: clearAllDecorationsGlobally, every visible editor shows
\* no decoration
NothingShown == [u \in VisibleEditors |-> [add |-> <<>>, remove |-> <<>>]]

\* faulty variant of AppliedToVisibleEditors: the editors are left as they
\* are when the registry is written
NotApplied(shown, active) == shown

\* lines 507-532: applyAllDecorationsToVisibleEditors, every visible editor
\* shows the registry entry of its document, or nothing without an entry
AppliedToVisibleEditors(shown, active) ==
    [u \in VisibleEditors |->
        IF u \in DOMAIN active THEN active[u] ELSE [add |-> <<>>, remove |-> <<>>]]

\* runTayloredCommand has not been called
NoCommand == [pc |-> "idle", arg |-> "", success |-> FALSE, refreshed |-> "no"]

(***************************************************************************)
(* scanAndProcessAllTayloredFiles (lines 370-505).                         *)
(***************************************************************************)
Init ==
    /\ pc = "idle"
    /\ fileNameOuter = 0
    /\ diffFile = NoDiffFile
    /\ chunk = NoChunk
    /\ changeIndex = 0
    /\ actualNewLineCounter = 0
    /\ actualOldLineCounter = 0
    /\ allFileDecorations = EmptyMap
    /\ activeDecorations = EmptyMap
    /\ walked = 0
    /\ addedLines = [u \in WorkspaceFiles |-> {}]
    /\ errors = {}
    /\ malformed = FALSE
    /\ expected = EmptyMap
    /\ met = {}
    /\ hunks = <<>>
    /\ inOrder = NotWalked
    /\ permuted = NotWalked
    /\ scans = [s \in ScanIds |-> IdleScan]
    /\ latest = NoScan
    /\ overlapped = {}
    /\ command = NoCommand
    /\ decorationTypes = 0
    /\ deactivated = FALSE
    /\ editors = NothingShown

\* lines 371-388: the registry is cleared, the directory is read
StartScan ==
    /\ pc = "idle"
    /\ pc' = "files"
    /\ activeDecorations' = EmptyMap
    /\ editors' = NothingShown
    /\ allFileDecorations' = EmptyMap
    /\ UNCHANGED <<fileNameOuter, diffFile, chunk, changeIndex,
                   actualNewLineCounter, actualOldLineCounter, walked,
                   addedLines,
                   errors, malformed, expected, met, pureVars, eventVars>>

\* lines 374-386: no workspace folder, or readDirectory throws
ScanReturnsEarly ==
    /\ pc = "idle"
    /\ pc' = "done"
    /\ activeDecorations' = EmptyMap
    /\ editors' = NothingShown
    /\ UNCHANGED <<fileNameOuter, diffFile, chunk, changeIndex, actualNewLineCounter,
                   actualOldLineCounter, allFileDecorations, walked,
                   addedLines,
                   errors, malformed, expected, met, pureVars, eventVars>>

\* lines 391-403: the next .taylored file is read and parsed
NextPatchFile ==
    /\ pc = "files"
    /\ fileNameOuter < MaxPatchFiles
    /\ fileNameOuter' = fileNameOuter + 1
    /\ pc' = "entries"
    /\ malformed' = FALSE
    /\ UNCHANGED <<diffFile, chunk, changeIndex, actualNewLineCounter,
                   actualOldLineCounter, allFileDecorations, activeDecorations,
                   walked, addedLines, errors, expected, met, pureVars, eventVars, editors>>

\* faulty variant of EmptyPatchFile: blank content is reported as an error
EmptyPatchFileReported ==
    /\ pc = "files"
    /\ fileNameOuter < MaxPatchFiles
    /\ fileNameOuter' = fileNameOuter + 1
    /\ errors' = errors \cup {fileNameOuter + 1}
    /\ UNCHANGED <<pc, diffFile, chunk, changeIndex, actualNewLineCounter,
                   actualOldLineCounter, allFileDecorations, activeDecorations,
                   walked, addedLines, malformed, expected, met, pureVars, eventVars, editors>>

\* lines 399-401: the content is empty or blank
EmptyPatchFile ==
    /\ pc = "files"
    /\ fileNameOuter < MaxPatchFiles
    /\ fileNameOuter' = fileNameOuter + 1
    /\ UNCHANGED <<pc, diffFile, chunk, changeIndex, actualNewLineCounter,
                   actualOldLineCounter, allFileDecorations, activeDecorations,
                   walked, addedLines,
                   errors, malformed, expected, met, pureVars, eventVars, editors>>

\* faulty variant of SkipDiffFile: the entry ends the processing of its
\* patch file
SkipDiffFileLeaves(df) ==
    /\ pc = "entries"
    /\ Skipped(df)
    /\ diffFile' = df
    /\ pc' = "files"
    /\ UNCHANGED <<fileNameOuter, chunk, changeIndex, actualNewLineCounter,
                   actualOldLineCounter, allFileDecorations, activeDecorations,
                   walked, addedLines, errors, malformed, expected, met, pureVars, eventVars, editors>>

\* lines 405-415: an entry with no target, the sentinel, or an unresolved path
SkipDiffFile(df) ==
    /\ pc = "entries"
    /\ Skipped(df)
    /\ diffFile' = df
    /\ UNCHANGED <<pc, fileNameOuter, chunk, changeIndex, actualNewLineCounter,
                   actualOldLineCounter, allFileDecorations, activeDecorations,
                   walked, addedLines, errors, malformed, expected, met, pureVars, eventVars, editors>>

\* lines 405-421: an entry whose target resolves gets its maps
NextDiffFile(df) ==
    /\ pc = "entries"
    /\ ~Skipped(df)
    /\ diffFile' = df
    /\ allFileDecorations' =
          IF TargetUriString(df) \in DOMAIN allFileDecorations
          THEN allFileDecorations
          ELSE WithTarget(allFileDecorations, TargetUriString(df),
                          [adds |-> EmptyMap, removes |-> EmptyMap])
    /\ pc' = "chunks"
    /\ met' = met \cup {"resolved"}
    /\ expected' =
          IF malformed \/ TargetUriString(df) \in DOMAIN expected
          THEN expected
          ELSE WithTarget(expected, TargetUriString(df),
                          [adds |-> EmptyMap, removes |-> EmptyMap])
    /\ UNCHANGED <<fileNameOuter, chunk, changeIndex, actualNewLineCounter,
                   actualOldLineCounter, activeDecorations, walked,
                   addedLines, errors, malformed, pureVars, eventVars, editors>>

\* line 405: parsedDiffs is exhausted
EndPatchFile ==
    /\ pc = "entries"
    /\ ~malformed
    /\ pc' = "files"
    /\ diffFile' = NoDiffFile
    /\ UNCHANGED <<fileNameOuter, chunk, changeIndex, actualNewLineCounter,
                   actualOldLineCounter, allFileDecorations, activeDecorations,
                   walked, addedLines,
                   errors, malformed, expected, met, pureVars, eventVars, editors>>

\* the changes among the first n that have one of the types
CountOf(changes, n, types) == Cardinality({j \in 1..n : changes[j] \in types})

\* the zero-based new-file lines of the add changes of a chunk: an add change
\* is new line newStart + (context and add changes before it)
AddedLineIndices(c) ==
    {c.newStart + CountOf(c.changes, j - 1, {"normal", "add"}) - 1 :
        j \in {k \in 1..Len(c.changes) : c.changes[k] = "add"}}

\* faulty variant of NextChunk: the maps of the target are created anew for
\* every chunk
NextChunkNewMaps(c) ==
    /\ pc = "chunks"
    /\ walked' = walked + Len(c.changes)
    /\ addedLines' =
          IF c.newStart >= 1
          THEN [addedLines EXCEPT ![Target] = @ \cup AddedLineIndices(c)]
          ELSE addedLines
    /\ chunk' = c
    /\ actualNewLineCounter' = c.newStart
    /\ actualOldLineCounter' = c.oldStart
    /\ changeIndex' = 0
    /\ pc' = "walk"
    /\ allFileDecorations' =
          WithTarget(allFileDecorations, Target,
                     [adds |-> EmptyMap, removes |-> EmptyMap])
    /\ UNCHANGED <<fileNameOuter, diffFile, activeDecorations,
                   errors, malformed, expected, met, pureVars, eventVars, editors>>

\* lines 423-427: the next chunk of the entry, its counters set from its starts
NextChunk(c) ==
    /\ pc = "chunks"
    /\ walked' = walked + Len(c.changes)
    /\ addedLines' =
          IF c.newStart >= 1
          THEN [addedLines EXCEPT ![Target] = @ \cup AddedLineIndices(c)]
          ELSE addedLines
    /\ chunk' = c
    /\ actualNewLineCounter' = c.newStart
    /\ actualOldLineCounter' = c.oldStart
    /\ changeIndex' = 0
    /\ pc' = "walk"
    /\ UNCHANGED <<fileNameOuter, diffFile, allFileDecorations, activeDecorations,
                   errors, malformed, expected, met, pureVars, eventVars, editors>>

\* line 423: diffFile.chunks is exhausted
EndDiffFile ==
    /\ pc = "chunks"
    /\ pc' = "entries"
    /\ UNCHANGED <<fileNameOuter, diffFile, chunk, changeIndex, actualNewLineCounter,
                   actualOldLineCounter, allFileDecorations, activeDecorations,
                   walked, addedLines,
                   errors, malformed, expected, met, pureVars, eventVars, editors>>

AtChange(type) ==
    /\ pc = "walk"
    /\ changeIndex < Len(chunk.changes)
    /\ ChangeAt(chunk.changes, changeIndex) = type

\* faulty variant of StepAdd: one test for both kinds, a line that holds a
\* removed annotation takes no added annotation
StepAddSharedKeys ==
    /\ AtChange("add")
    /\ LET count == BlockLineCount(chunk.changes, changeIndex, "add")
           line == FirstAddedLine(actualNewLineCounter)
           taken == Has(DecorationsForThisTarget.removes, line)
       IN /\ actualNewLineCounter' = actualNewLineCounter + count
          /\ allFileDecorations' =
                IF taken
                THEN allFileDecorations
                ELSE WithTarget(allFileDecorations, Target,
                         [DecorationsForThisTarget EXCEPT
                             !.adds = Recorded(@, line, count, fileNameOuter)])
          /\ changeIndex' = RunEnd(chunk.changes, changeIndex, "add")
          /\ expected' =
                IF malformed \/ taken
                THEN expected
                ELSE WithTarget(expected, Target,
                         [expected[Target] EXCEPT
                             !.adds = Recorded(@, line, count, fileNameOuter)])
    /\ UNCHANGED <<pc, fileNameOuter, diffFile, chunk, actualOldLineCounter,
                   activeDecorations, walked,
                   addedLines, errors, malformed, met, pureVars, eventVars, editors>>

\* lines 432-453
StepAdd ==
    /\ AtChange("add")
    /\ LET count == BlockLineCount(chunk.changes, changeIndex, "add")
           line == FirstAddedLine(actualNewLineCounter)
       IN /\ actualNewLineCounter' = actualNewLineCounter + count
          /\ allFileDecorations' =
                WithTarget(allFileDecorations, Target,
                    [DecorationsForThisTarget EXCEPT
                        !.adds = Recorded(@, line, count, fileNameOuter)])
          /\ changeIndex' = RunEnd(chunk.changes, changeIndex, "add")
          /\ expected' =
                IF malformed
                THEN expected
                ELSE WithTarget(expected, Target,
                         [expected[Target] EXCEPT
                             !.adds = Recorded(@, line, count, fileNameOuter)])
    /\ UNCHANGED <<pc, fileNameOuter, diffFile, chunk, actualOldLineCounter,
                   activeDecorations, walked,
                   addedLines, errors, malformed, met, pureVars, eventVars, editors>>

\* faulty variant of StepDel: the anchor is taken from the old-file counter
StepDelOldAnchor ==
    /\ AtChange("del")
    /\ LET count == BlockLineCount(chunk.changes, changeIndex, "del")
           line == LineToUnderline(actualOldLineCounter)
       IN /\ actualOldLineCounter' = actualOldLineCounter + count
          /\ allFileDecorations' =
                WithTarget(allFileDecorations, Target,
                    [DecorationsForThisTarget EXCEPT
                        !.removes = Recorded(@, line, count, fileNameOuter)])
          /\ changeIndex' = RunEnd(chunk.changes, changeIndex, "del")
          /\ expected' =
                IF malformed
                THEN expected
                ELSE WithTarget(expected, Target,
                         [expected[Target] EXCEPT
                             !.removes = Recorded(@, line, count, fileNameOuter)])
    /\ UNCHANGED <<pc, fileNameOuter, diffFile, chunk, actualNewLineCounter,
                   activeDecorations, walked,
                   addedLines, errors, malformed, met, pureVars, eventVars, editors>>

\* lines 455-476
StepDel ==
    /\ AtChange("del")
    /\ LET count == BlockLineCount(chunk.changes, changeIndex, "del")
           line == LineToUnderline(actualNewLineCounter)
       IN /\ actualOldLineCounter' = actualOldLineCounter + count
          /\ allFileDecorations' =
                WithTarget(allFileDecorations, Target,
                    [DecorationsForThisTarget EXCEPT
                        !.removes = Recorded(@, line, count, fileNameOuter)])
          /\ changeIndex' = RunEnd(chunk.changes, changeIndex, "del")
          /\ expected' =
                IF malformed
                THEN expected
                ELSE WithTarget(expected, Target,
                         [expected[Target] EXCEPT
                             !.removes = Recorded(@, line, count, fileNameOuter)])
    /\ UNCHANGED <<pc, fileNameOuter, diffFile, chunk, actualNewLineCounter,
                   activeDecorations, walked,
                   addedLines, errors, malformed, met, pureVars, eventVars, editors>>

\* faulty variant of StepNormal: the old-line counter is not advanced
StepNormalNewOnly ==
    /\ AtChange("normal")
    /\ actualNewLineCounter' = actualNewLineCounter + 1
    /\ changeIndex' = changeIndex + 1
    /\ UNCHANGED <<pc, fileNameOuter, diffFile, chunk, actualOldLineCounter,
                   allFileDecorations, activeDecorations, walked, addedLines,
                   errors, malformed, expected, met, pureVars, eventVars, editors>>

\* faulty variant of StepNormal: the context line is decorated as added
StepNormalMarks ==
    /\ AtChange("normal")
    /\ actualOldLineCounter' = actualOldLineCounter + 1
    /\ actualNewLineCounter' = actualNewLineCounter + 1
    /\ changeIndex' = changeIndex + 1
    /\ allFileDecorations' =
          WithTarget(allFileDecorations, Target,
              [DecorationsForThisTarget EXCEPT
                  !.adds = Recorded(@, actualNewLineCounter - 1, 1, fileNameOuter)])
    /\ UNCHANGED <<pc, fileNameOuter, diffFile, chunk, activeDecorations, walked,
                   addedLines, errors, malformed, expected, met, pureVars, eventVars, editors>>

\* faulty variant of StepNormal: the new-file counter is not advanced
StepNormalOldOnly ==
    /\ AtChange("normal")
    /\ actualOldLineCounter' = actualOldLineCounter + 1
    /\ changeIndex' = changeIndex + 1
    /\ UNCHANGED <<pc, fileNameOuter, diffFile, chunk, actualNewLineCounter,
                   allFileDecorations, activeDecorations, walked, addedLines,
                   errors, malformed, expected, met, pureVars, eventVars, editors>>

\* lines 477-480
StepNormal ==
    /\ AtChange("normal")
    /\ actualOldLineCounter' = actualOldLineCounter + 1
    /\ actualNewLineCounter' = actualNewLineCounter + 1
    /\ changeIndex' = changeIndex + 1
    /\ UNCHANGED <<pc, fileNameOuter, diffFile, chunk, allFileDecorations,
                   activeDecorations, walked,
                   addedLines,
                   errors, malformed, expected, met, pureVars, eventVars, editors>>

\* faulty variant of StepOther: the cursor is not advanced
StepOtherStays ==
    /\ pc = "walk"
    /\ changeIndex < Len(chunk.changes)
    /\ ChangeAt(chunk.changes, changeIndex) \notin {"add", "del", "normal"}
    /\ UNCHANGED vars

\* lines 481-483
StepOther ==
    /\ pc = "walk"
    /\ changeIndex < Len(chunk.changes)
    /\ ChangeAt(chunk.changes, changeIndex) \notin {"add", "del", "normal"}
    /\ changeIndex' = changeIndex + 1
    /\ UNCHANGED <<pc, fileNameOuter, diffFile, chunk, actualNewLineCounter,
                   actualOldLineCounter, allFileDecorations, activeDecorations,
                   walked, addedLines,
                   errors, malformed, expected, met, pureVars, eventVars, editors>>

\* line 428: the while loop ends; the chunk's locals go out of scope
EndChunk ==
    /\ pc = "walk"
    /\ changeIndex >= Len(chunk.changes)
    /\ pc' = "chunks"
    /\ chunk' = NoChunk
    /\ changeIndex' = 0
    /\ actualNewLineCounter' = 0
    /\ actualOldLineCounter' = 0
    /\ UNCHANGED <<fileNameOuter, diffFile, allFileDecorations, activeDecorations,
                   walked, addedLines,
                   errors, malformed, expected, met, pureVars, eventVars, editors>>

\* Array.from(map.values())
ValuesOf(map) == map

\* faulty variant of Published: a target whose maps are both empty gets no
\* entry
PublishedNonEmpty(active, all) ==
    [u \in DOMAIN active
            \cup {v \in DOMAIN all : all[v].adds # <<>> \/ all[v].removes # <<>>} |->
        IF u \in DOMAIN all
        THEN [add |-> ValuesOf(all[u].adds), remove |-> ValuesOf(all[u].removes)]
        ELSE active[u]]

\* lines 493-498: the accumulator is copied into the registry
Published(active, all) ==
    [u \in DOMAIN active \cup DOMAIN all |->
        IF u \in DOMAIN all
        THEN [add |-> ValuesOf(all[u].adds), remove |-> ValuesOf(all[u].removes)]
        ELSE active[u]]

\* lines 391, 493-500: the listing is exhausted, the result is published
Publish ==
    /\ pc = "files"
    /\ activeDecorations' = Published(activeDecorations, allFileDecorations)
    /\ editors' = AppliedToVisibleEditors(editors, activeDecorations')
    /\ pc' = "done"
    /\ UNCHANGED <<fileNameOuter, diffFile, chunk, changeIndex, actualNewLineCounter,
                   actualOldLineCounter, allFileDecorations, walked,
                   addedLines,
                   errors, malformed, expected, met, pureVars, eventVars>>

\* lines 397-403, 487-489: readFile or parseDiffFunction throws; the catch
\* reports the patch file and the for loop goes on
ReadFileThrows ==
    /\ pc = "files"
    /\ fileNameOuter < MaxPatchFiles
    /\ fileNameOuter' = fileNameOuter + 1
    /\ errors' = errors \cup {fileNameOuter + 1}
    /\ met' = met \cup {"failed"}
    /\ UNCHANGED <<pc, diffFile, chunk, changeIndex, actualNewLineCounter,
                   actualOldLineCounter, allFileDecorations, activeDecorations,
                   walked, addedLines, malformed, expected, pureVars, eventVars, editors>>

\* lines 391-403: the next .taylored file is read and parsed; one of its
\* entries or chunks is not of the shape the loops expect
NextMalformedPatchFile ==
    /\ pc = "files"
    /\ fileNameOuter < MaxPatchFiles
    /\ fileNameOuter' = fileNameOuter + 1
    /\ pc' = "entries"
    /\ malformed' = TRUE
    /\ UNCHANGED <<diffFile, chunk, changeIndex, actualNewLineCounter,
                   actualOldLineCounter, allFileDecorations, activeDecorations,
                   walked, addedLines, errors, expected, met, pureVars, eventVars, editors>>

\* faulty variant of PatchFileThrows: the catch undoes what the patch file
\* recorded before it threw
PatchFileThrowsRollsBack ==
    /\ pc \in {"entries", "chunks"}
    /\ malformed
    /\ pc' = "files"
    /\ diffFile' = NoDiffFile
    /\ malformed' = FALSE
    /\ errors' = errors \cup {fileNameOuter}
    /\ met' = met \cup {"failed"}
    /\ allFileDecorations' =
          [u \in DOMAIN allFileDecorations |->
              [adds |-> SelectSeq(allFileDecorations[u].adds,
                                  LAMBDA d : d.fileName # fileNameOuter),
               removes |-> SelectSeq(allFileDecorations[u].removes,
                                     LAMBDA d : d.fileName # fileNameOuter)]]
    /\ UNCHANGED <<fileNameOuter, chunk, changeIndex, actualNewLineCounter,
                   actualOldLineCounter, activeDecorations,
                   walked, addedLines, expected, pureVars, eventVars, editors>>

\* lines 405-428, 487-489: a statement of the entry loop (406, 410) or of the
\* chunk callback (428) throws; the catch reports the patch file, what its
\* earlier entries recorded stays, and the for loop goes on
PatchFileThrows ==
    /\ pc \in {"entries", "chunks"}
    /\ malformed
    /\ pc' = "files"
    /\ diffFile' = NoDiffFile
    /\ malformed' = FALSE
    /\ errors' = errors \cup {fileNameOuter}
    /\ met' = met \cup {"failed"}
    /\ UNCHANGED <<fileNameOuter, chunk, changeIndex, actualNewLineCounter,
                   actualOldLineCounter, allFileDecorations, activeDecorations,
                   walked, addedLines, expected, pureVars, eventVars, editors>>

Next ==
    \/ StartScan
    \/ ScanReturnsEarly
    \/ NextPatchFile
    \/ EmptyPatchFile
    \/ \E df \in DiffFiles : SkipDiffFile(df)
    \/ \E df \in DiffFiles : NextDiffFile(df)
    \/ EndPatchFile
    \/ \E c \in ScanChunks(MaxScanChanges - walked) : NextChunk(c)
    \/ EndDiffFile
    \/ StepAdd
    \/ StepDel
    \/ StepNormal
    \/ StepOther
    \/ EndChunk
    \/ Publish

Spec == Init /\ [][Next]_vars

\* a scan whose entries hold one chunk that has changes
NextWalk ==
    \/ StartScan
    \/ ScanReturnsEarly
    \/ NextPatchFile
    \/ EmptyPatchFile
    \/ \E df \in DiffFiles : SkipDiffFile(df)
    \/ \E df \in DiffFiles : NextDiffFile(df)
    \/ EndPatchFile
    \/ \E c \in Chunks : walked = 0 /\ NextChunk(c)
    \/ EndDiffFile
    \/ StepAdd
    \/ StepDel
    \/ StepNormal
    \/ StepOther
    \/ EndChunk
    \/ Publish

SpecWalk == Init /\ [][NextWalk]_vars

\* lines 428-484: the while loop holds no await; once a chunk is entered its
\* iterations follow one another until the loop condition fails
WalkProceeds == WF_vars(StepAdd \/ StepDel \/ StepNormal \/ StepOther)

\* the scan that walks one chunk, with the loop running on
SpecWalkFair == Init /\ [][NextWalk]_vars /\ WalkProceeds

\* the chunks of a scan in which patch files fail: chunks that start at
\* line 1
FailureChunks(n) == {c \in ScanChunks(n) : c.newStart = 1}

\* a scan in which reading, parsing and processing a patch file can throw
NextFailures ==
    \/ StartScan
    \/ ScanReturnsEarly
    \/ NextPatchFile
    \/ EmptyPatchFile
    \/ \E df \in DiffFiles : SkipDiffFile(df)
    \/ \E df \in DiffFiles : NextDiffFile(df)
    \/ EndPatchFile
    \/ \E c \in FailureChunks(MaxScanChanges - walked) : NextChunk(c)
    \/ EndDiffFile
    \/ StepAdd
    \/ StepDel
    \/ StepNormal
    \/ StepOther
    \/ EndChunk
    \/ Publish
    \/ ReadFileThrows
    \/ NextMalformedPatchFile
    \/ PatchFileThrows

SpecFailures == Init /\ [][NextFailures]_vars

(***************************************************************************)
(* The chunk callback (lines 423-485) as a function of the chunks of one   *)
(* entry: the maps of the target after forEach has walked them.            *)
(***************************************************************************)
\* faulty variant of CountersAt: the counters go on from the chunk before
CountersCarried(c, carried) == carried

\* lines 424-425: the counters of a chunk start at its own start lines
CountersAt(c, carried) == [new |-> c.newStart, old |-> c.oldStart]

\* lines 428-484: the while loop from the walk state w to the end of chunk c
RECURSIVE WalkFrom(_, _, _)
WalkFrom(w, c, fileName) ==
    IF w.changeIndex >= Len(c.changes)
    THEN w
    ELSE LET type == ChangeAt(c.changes, w.changeIndex)
             count == BlockLineCount(c.changes, w.changeIndex, type)
         IN IF type = "add"
            THEN WalkFrom([changeIndex |-> RunEnd(c.changes, w.changeIndex, "add"),
                           new |-> w.new + count,
                           old |-> w.old,
                           adds |-> Recorded(w.adds, FirstAddedLine(w.new), count,
                                             fileName),
                           removes |-> w.removes], c, fileName)
            ELSE IF type = "del"
            THEN WalkFrom([changeIndex |-> RunEnd(c.changes, w.changeIndex, "del"),
                           new |-> w.new,
                           old |-> w.old + count,
                           adds |-> w.adds,
                           removes |-> Recorded(w.removes, LineToUnderline(w.new),
                                                count, fileName)], c, fileName)
            ELSE IF type = "normal"
            THEN WalkFrom([w EXCEPT !.changeIndex = @ + 1,
                                    !.new = @ + 1, !.old = @ + 1], c, fileName)
            ELSE WalkFrom([w EXCEPT !.changeIndex = @ + 1], c, fileName)

\* line 423: forEach over the chunks cs, from the maps decs
RECURSIVE WalkChunks(_, _, _, _)
WalkChunks(decs, cs, carried, fileName) ==
    IF cs = <<>>
    THEN decs
    ELSE LET start == CountersAt(Head(cs), carried)
             w == WalkFrom([changeIndex |-> 0, new |-> start.new, old |-> start.old,
                            adds |-> decs.adds, removes |-> decs.removes],
                           Head(cs), fileName)
         IN WalkChunks([adds |-> w.adds, removes |-> w.removes], Tail(cs),
                       [new |-> w.new, old |-> w.old], fileName)

\* lines 417-423, 493-498: the arrays published for a target whose maps were
\* created empty and filled by the chunks cs of one entry of patch file 1
ForEachChunk(cs) ==
    LET decs == WalkChunks([adds |-> EmptyMap, removes |-> EmptyMap], cs,
                           [new |-> 0, old |-> 0], 1)
    IN [add |-> ValuesOf(decs.adds), remove |-> ValuesOf(decs.removes)]

\* the changes that the chunks cs hold in total
RECURSIVE ChangesOf(_)
ChangesOf(cs) == IF cs = <<>> THEN 0 ELSE Len(Head(cs).changes) + ChangesOf(Tail(cs))

\* the orders in which n chunks can be walked
Orders(n) == {p \in [1..n -> 1..n] : \A i, j \in 1..n : p[i] = p[j] => i = j}

InOrder(n) == [i \in 1..n |-> i]

\* the chunks cs in the order p
Reordered(cs, p) == [i \in 1..Len(cs) |-> cs[p[i]]]

\* diffFile.chunks of the entry that is walked: the parser has put one more
\* chunk into it
ParsedChunk(c) ==
    /\ inOrder = NotWalked
    /\ permuted = NotWalked
    /\ Len(hunks) < MaxHunks
    /\ hunks' = Append(hunks, c)
    /\ UNCHANGED <<pc, fileNameOuter, diffFile, chunk, changeIndex,
                   actualNewLineCounter, actualOldLineCounter, allFileDecorations,
                   activeDecorations, walked, addedLines, errors, malformed,
                   expected, met, inOrder, permuted, eventVars, editors>>

\* the chunks of the entry are walked in their order
WalkInOrder ==
    /\ hunks # <<>>
    /\ inOrder = NotWalked
    /\ inOrder' = [order |-> InOrder(Len(hunks))] @@ ForEachChunk(hunks)
    /\ UNCHANGED <<pc, fileNameOuter, diffFile, chunk, changeIndex,
                   actualNewLineCounter, actualOldLineCounter, allFileDecorations,
                   activeDecorations, walked, addedLines, errors, malformed,
                   expected, met, hunks, permuted, eventVars, editors>>

\* the same chunks are walked in the order p
WalkPermuted(p) ==
    /\ hunks # <<>>
    /\ permuted = NotWalked
    /\ permuted' = [order |-> p] @@ ForEachChunk(Reordered(hunks, p))
    /\ UNCHANGED <<pc, fileNameOuter, diffFile, chunk, changeIndex,
                   actualNewLineCounter, actualOldLineCounter, allFileDecorations,
                   activeDecorations, walked, addedLines, errors, malformed,
                   expected, met, hunks, inOrder, eventVars, editors>>

NextForEach ==
    \/ \E c \in ScanChunks(MaxScanChanges - ChangesOf(hunks)) : ParsedChunk(c)
    \/ WalkInOrder
    \/ \E p \in Orders(Len(hunks)) : WalkPermuted(p)

SpecForEach == Init /\ [][NextForEach]_vars

(***************************************************************************)
(* Invocations that interleave.  scanAndProcessAllTayloredFiles is an      *)
(* async function: an invocation runs from one await to the next without   *)
(* interruption, and between two awaits of one invocation the handlers of  *)
(* other events run, another invocation among them.  The locals of an      *)
(* invocation (lines 388-389, 424-425) are its own; activeDecorations is   *)
(* the one module-level map they all write.  The walk of the chunks of an  *)
(* entry holds no await: it is the function WalkChunks.                    *)
(***************************************************************************)
\* the variables of the scan that is followed step by step
stepVars == <<pc, fileNameOuter, diffFile, chunk, changeIndex, actualNewLineCounter,
              actualOldLineCounter, allFileDecorations, walked, addedLines, errors,
              malformed, expected, met>>

\* the events whose handlers call scanAndProcessAllTayloredFiles
Triggers == {"activate", "refresh", "save", "watcher"}

\* the entries of the patch files of these scans: they name a path
EventDiffFiles == {df \in DiffFiles : ~NamesNoFile(df)}

\* the chunks of these entries: one added line at line 1
EventChunks == {c \in FailureChunks(MaxStart) : c.changes = <<"add">>}

\* the chunk lists of these entries
EventChunkLists == {<<>>} \cup {<<c>> : c \in EventChunks}

\* the invocation is between its call and its return
InFlight(s) == scans[s].pc \in {"readDirectory", "readFile", "findFile"}

\* faulty variant of ClearedRegistry: the entries of the earlier scan stay
ClearedNothing(active) == active

\* lines 370-372: activeDecorations.clear()
ClearedRegistry(active) == EmptyMap

\* faulty variant of WithLocals: the locals are module-level, every invocation
\* in flight works on the same accumulator
WithLocalsShared(all, s, locals) ==
    [t \in DOMAIN all |->
        IF t = s
        THEN locals
        ELSE IF all[t].pc \in {"readDirectory", "readFile", "findFile"}
             THEN [all[t] EXCEPT !.allFileDecorations = locals.allFileDecorations]
             ELSE all[t]]

\* the invocations after invocation s has run to its next await
WithLocals(all, s, locals) == [all EXCEPT ![s] = locals]

\* the maps of a target in an accumulator, created when the target is new
\* (lines 417-420)
DecorationsOf(all, uri) ==
    IF uri \in DOMAIN all THEN all[uri] ELSE [adds |-> EmptyMap, removes |-> EmptyMap]

\* lines 417-485: the accumulator after the chunks cs of entry df are walked
AfterEntry(all, df, cs, fileName) ==
    IF Skipped(df)
    THEN all
    ELSE WithTarget(all, TargetUriString(df),
                    WalkChunks(DecorationsOf(all, TargetUriString(df)), cs,
                               [new |-> 0, old |-> 0], fileName))

\* faulty variant of Called: the registry and the editors are cleared only
\* on the return without a workspace folder, not before the directory is read
CalledClearsLate(s, trigger, hasWorkspace) ==
    /\ ~deactivated
    /\ ~InFlight(s)
    /\ s = "B" => scans["A"].pc # "idle"
    /\ editors' = IF hasWorkspace THEN editors ELSE NothingShown
    /\ activeDecorations' = IF hasWorkspace
                            THEN activeDecorations
                            ELSE ClearedRegistry(activeDecorations)
    /\ scans' = WithLocals(scans, s,
                           [IdleScan EXCEPT !.pc = IF hasWorkspace
                                                   THEN "readDirectory"
                                                   ELSE "done"])
    /\ latest' = [scan |-> s, event |-> trigger]
    /\ overlapped' = IF \E t \in ScanIds : t # s /\ InFlight(t)
                     THEN ScanIds
                     ELSE overlapped \ {s}

\* lines 370-381: the function is called for an event; the registry is
\* cleared, and without a workspace folder the call returns at once
Called(s, trigger, hasWorkspace) ==
    /\ ~deactivated
    /\ ~InFlight(s)
    /\ s = "B" => scans["A"].pc # "idle"
    /\ editors' = NothingShown
    /\ activeDecorations' = ClearedRegistry(activeDecorations)
    /\ scans' = WithLocals(scans, s,
                           [IdleScan EXCEPT !.pc = IF hasWorkspace
                                                   THEN "readDirectory"
                                                   ELSE "done"])
    /\ latest' = [scan |-> s, event |-> trigger]
    /\ overlapped' = IF \E t \in ScanIds : t # s /\ InFlight(t)
                     THEN ScanIds
                     ELSE overlapped \ {s}

\* lines 234-244, 264-277, 287-295, 298-330: the handler of a manual refresh,
\* of the save of a patch file, of a watcher event, or the activation calls
\* the function
ScanCalled(s, trigger, hasWorkspace) ==
    /\ Called(s, trigger, hasWorkspace)
    /\ UNCHANGED <<command, decorationTypes, deactivated, stepVars, pureVars>>

\* lines 381-386: readDirectory throws, the function returns
ReadDirectoryRejects(s) ==
    /\ scans[s].pc = "readDirectory"
    /\ scans' = WithLocals(scans, s, [scans[s] EXCEPT !.pc = "done"])
    /\ met' = met \cup {"unreadable"}
    /\ UNCHANGED <<activeDecorations, editors, latest, overlapped, command,
                   decorationTypes, deactivated, pureVars,
                   pc, fileNameOuter, diffFile, chunk, changeIndex,
                   actualNewLineCounter, actualOldLineCounter,
                   allFileDecorations, walked, addedLines, errors, malformed,
                   expected>>

\* lines 391, 493-500: the patch file at hand was the last one (the result
\* is published and applied to the visible editors) or the next one is
\* read; setDecorations with decoration types that deactivate has disposed
\* is left to the host: the editors show the registry or stay as they are
EndOfPatchFile(s, locals, last) ==
    IF last
    THEN /\ scans' = WithLocals(scans, s, [locals EXCEPT !.pc = "done"])
         /\ activeDecorations' =
               Published(activeDecorations, locals.allFileDecorations)
         /\ editors' \in
               {AppliedToVisibleEditors(editors, activeDecorations')}
                   \cup (IF deactivated THEN {editors} ELSE {})
    ELSE /\ locals.fileNameOuter < MaxPatchFiles
         /\ scans' = WithLocals(scans, s,
                                [locals EXCEPT !.pc = "readFile",
                                               !.fileNameOuter = @ + 1])
         /\ UNCHANGED <<activeDecorations, editors>>

\* lines 381-397: the directory is read; with no patch file in it the (empty)
\* result is published, otherwise the first patch file is read
ReadDirectoryResolves(s, last) ==
    /\ scans[s].pc = "readDirectory"
    /\ EndOfPatchFile(s, scans[s], last)
    /\ UNCHANGED <<latest, overlapped, command, decorationTypes, deactivated,
                   stepVars, pureVars>>

\* lines 397-410: the patch file is read and parsed, its first entry that
\* names a path is being resolved
ReadFileGivesEntries(s) ==
    /\ scans[s].pc = "readFile"
    /\ scans' = WithLocals(scans, s, [scans[s] EXCEPT !.pc = "findFile"])
    /\ UNCHANGED <<activeDecorations, editors, latest, overlapped, command,
                   decorationTypes, deactivated, stepVars, pureVars>>

\* lines 397-407, 487-489: the patch file cannot be read, is blank, or holds
\* no entry that names a path
ReadFileGivesNothing(s, last) ==
    /\ scans[s].pc = "readFile"
    /\ EndOfPatchFile(s, scans[s], last)
    /\ UNCHANGED <<latest, overlapped, command, decorationTypes, deactivated,
                   stepVars, pureVars>>

\* lines 410-485: findFileInWorkspace returns for entry df; its chunks are
\* walked, and the next entry that names a path is being resolved
FindFileMoreEntries(s, df, cs) ==
    /\ scans[s].pc = "findFile"
    /\ scans' = WithLocals(scans, s,
                           [scans[s] EXCEPT !.allFileDecorations =
                               AfterEntry(@, df, cs, scans[s].fileNameOuter)])
    /\ UNCHANGED <<activeDecorations, editors, latest, overlapped, command,
                   decorationTypes, deactivated, stepVars, pureVars>>

\* lines 410-500: findFileInWorkspace returns for the last entry of the
\* patch file
FindFileLastEntry(s, df, cs, last) ==
    /\ scans[s].pc = "findFile"
    /\ EndOfPatchFile(s,
                      [scans[s] EXCEPT !.allFileDecorations =
                          AfterEntry(@, df, cs, scans[s].fileNameOuter)],
                      last)
    /\ UNCHANGED <<latest, overlapped, command, decorationTypes, deactivated,
                   stepVars, pureVars>>

\* two invocations and the events that call them
NextEvents ==
    \/ \E s \in ScanIds, trigger \in Triggers, hasWorkspace \in BOOLEAN :
          ScanCalled(s, trigger, hasWorkspace)
    \/ \E s \in ScanIds : ReadDirectoryRejects(s)
    \/ \E s \in ScanIds, last \in BOOLEAN : ReadDirectoryResolves(s, last)
    \/ \E s \in ScanIds : ReadFileGivesEntries(s)
    \/ \E s \in ScanIds, last \in BOOLEAN : ReadFileGivesNothing(s, last)
    \/ \E s \in ScanIds, df \in EventDiffFiles, cs \in EventChunkLists :
          FindFileMoreEntries(s, df, cs)
    \/ \E s \in ScanIds, df \in EventDiffFiles, cs \in EventChunkLists,
          last \in BOOLEAN :
          FindFileLastEntry(s, df, cs, last)

SpecEvents == Init /\ [][NextEvents]_vars

(***************************************************************************)
(* The taylored CLI commands (lines 31-81) and the configuration handler   *)
(* (lines 246-262), with the scans they cause.  One invocation is followed *)
(* here: an event that calls the function waits for the invocation in      *)
(* flight to return.                                                       *)
(***************************************************************************)
\* args[0] of the commands: the four the menu runs and one that changes no
\* patch file
CommandArgs == {"--add", "--remove", "--save", "--offset", "--list"}

\* faulty variant of TriggersRefresh: --offset is left out
TriggersRefreshExceptOffset(arg) == arg \in {"--add", "--remove", "--save"}

\* line 73: the commands after which refreshAllHighlights is executed
TriggersRefresh(arg) == arg \in {"--add", "--remove", "--save", "--offset"}

\* faulty variant of RescansOnChange: the scan is called whatever the
\* registry holds
RescansAlways(active) == TRUE

\* line 250: activeDecorations.size > 0
RescansOnChange(active) == active # EmptyMap

\* lines 31-60: runTayloredCommand is called and the command is executed
RunTayloredCommand(arg) ==
    /\ ~deactivated
    /\ command.pc \in {"idle", "resolved"}
    /\ command.refreshed # "requested"
    /\ command' = [pc |-> "exec", arg |-> arg, success |-> FALSE, refreshed |-> "no"]
    /\ UNCHANGED <<activeDecorations, editors, scans, latest, overlapped,
                   decorationTypes, deactivated, stepVars, pureVars>>

\* lines 61-63: the command failed; the error is shown and the promise is
\* resolved with success false
ExecFails ==
    /\ command.pc = "exec"
    /\ command' = [command EXCEPT !.pc = "resolved", !.success = FALSE]
    /\ UNCHANGED <<activeDecorations, editors, scans, latest, overlapped,
                   decorationTypes, deactivated, stepVars, pureVars>>

\* lines 64-75: the command succeeded; the messages are shown and, for a
\* command that can change the patch files, refreshAllHighlights is executed
ExecSucceeds ==
    /\ command.pc = "exec"
    /\ command' = [command EXCEPT !.pc = "succeeded",
                                  !.refreshed = IF TriggersRefresh(command.arg)
                                                THEN "requested"
                                                ELSE "no"]
    /\ UNCHANGED <<activeDecorations, editors, scans, latest, overlapped,
                   decorationTypes, deactivated, stepVars, pureVars>>

\* line 76: the promise is resolved with success true
CommandResolves ==
    /\ command.pc = "succeeded"
    /\ command' = [command EXCEPT !.pc = "resolved", !.success = TRUE]
    /\ UNCHANGED <<activeDecorations, editors, scans, latest, overlapped,
                   decorationTypes, deactivated, stepVars, pureVars>>

\* lines 234-244: the handler of refreshAllHighlights runs for the command
\* that executed it and calls the function
RefreshExecuted(hasWorkspace) ==
    /\ command.refreshed = "requested"
    /\ Called("A", "command", hasWorkspace)
    /\ command' = [command EXCEPT !.refreshed = "handled"]
    /\ UNCHANGED <<decorationTypes, deactivated, stepVars, pureVars>>

\* lines 246-262: the configuration changed; when it affects the section the
\* decoration types are disposed and created anew, and the function is
\* called when the registry holds an entry
ConfigurationChanged(affects, hasWorkspace) ==
    /\ ~deactivated
    /\ IF affects
       THEN /\ decorationTypes' = (decorationTypes + 1) % 2
            /\ editors' = NothingShown
            /\ IF RescansOnChange(activeDecorations)
               THEN Called("A", "configuration", hasWorkspace)
               ELSE UNCHANGED <<activeDecorations, scans, latest, overlapped>>
       ELSE UNCHANGED <<decorationTypes, activeDecorations, editors, scans, latest,
                        overlapped>>
    /\ UNCHANGED <<command, deactivated, stepVars, pureVars>>

\* lines 577-583: deactivate disposes the decoration types (the editors
\* lose their decorations) and the watcher, and clears the registry; the
\* handlers are disposed with the extension, an invocation in flight goes on
Deactivate ==
    /\ ~deactivated
    /\ deactivated' = TRUE
    /\ editors' = NothingShown
    /\ activeDecorations' = ClearedRegistry(activeDecorations)
    /\ UNCHANGED <<scans, latest, overlapped, command, decorationTypes,
                   stepVars, pureVars>>

\* one invocation at a time, the commands and the configuration changes
NextCommands ==
    \/ \E trigger \in Triggers, hasWorkspace \in BOOLEAN :
          ScanCalled("A", trigger, hasWorkspace)
    \/ ReadDirectoryRejects("A")
    \/ \E last \in BOOLEAN : ReadDirectoryResolves("A", last)
    \/ ReadFileGivesEntries("A")
    \/ \E last \in BOOLEAN : ReadFileGivesNothing("A", last)
    \/ \E df \in EventDiffFiles, cs \in EventChunkLists :
          FindFileMoreEntries("A", df, cs)
    \/ \E df \in EventDiffFiles, cs \in EventChunkLists, last \in BOOLEAN :
          FindFileLastEntry("A", df, cs, last)
    \/ \E arg \in CommandArgs : RunTayloredCommand(arg)
    \/ ExecFails
    \/ ExecSucceeds
    \/ CommandResolves
    \/ \E hasWorkspace \in BOOLEAN : RefreshExecuted(hasWorkspace)
    \/ \E affects \in BOOLEAN, hasWorkspace \in BOOLEAN :
          ConfigurationChanged(affects, hasWorkspace)
    \/ Deactivate

SpecCommands == Init /\ [][NextCommands]_vars

(***************************************************************************)
(* Definitions the properties are stated with.  They describe a chunk by   *)
(* its change list alone, not by the counters of the walk.                 *)
(***************************************************************************)
\* the length of the maximal run of one type that starts at zero-based index i
MaxRun(changes, i, type) ==
    CHOOSE k \in 0..(Len(changes) - i) :
        /\ \A j \in 1..k : changes[i + j] = type
        /\ i + k = Len(changes) \/ changes[i + k + 1] # type

\* the 1-based new-file line of the change at zero-based index i
NewLineOf(c, i) == c.newStart + CountOf(c.changes, i, {"normal", "add"})

\* the 1-based old-file line of the change at zero-based index i
OldLineOf(c, i) == c.oldStart + CountOf(c.changes, i, {"normal", "del"})

Adds(all, uri) == all[uri].adds

Removes(all, uri) == all[uri].removes

\* a step of the walk changes at most the maps of the current target
OnlyTargetChanges ==
    /\ DOMAIN allFileDecorations' = DOMAIN allFileDecorations
    /\ \A u \in DOMAIN allFileDecorations :
          u # Target => allFileDecorations'[u] = allFileDecorations[u]

\* the function agrees with the steps: when the first chunk with changes of a
\* scan has been walked to its end by the steps, the maps of its target hold
\* what the function gives for that chunk
StepsAgreeWithForEachChunk ==
    pc = "walk" /\ changeIndex >= Len(chunk.changes) /\ fileNameOuter = 1
        /\ walked = Len(chunk.changes) =>
            /\ ValuesOf(Adds(allFileDecorations, Target)) = ForEachChunk(<<chunk>>).add
            /\ ValuesOf(Removes(allFileDecorations, Target)) =
                  ForEachChunk(<<chunk>>).remove

(***************************************************************************)
(* C1: at an add change the walk consumes the whole maximal run of add     *)
(* changes in one step: the cursor and the new-line counter grow by the    *)
(* run length, the old-line counter is unchanged, and the added map gains  *)
(* nothing or the one decoration at (new-line counter - 1) that carries    *)
(* the run length; nothing else of the accumulator changes.                *)
(***************************************************************************)
C1_AddRunStep ==
    AtChange("add") =>
        LET run == MaxRun(chunk.changes, changeIndex, "add")
            anchor == actualNewLineCounter - 1
        IN /\ run >= 1
           /\ changeIndex' = changeIndex + run
           /\ actualNewLineCounter' = actualNewLineCounter + run
           /\ actualOldLineCounter' = actualOldLineCounter
           /\ anchor = NewLineOf(chunk, changeIndex) - 1
           /\ \/ Adds(allFileDecorations', Target) = Adds(allFileDecorations, Target)
              \/ Adds(allFileDecorations', Target) =
                    Append(Adds(allFileDecorations, Target),
                           Decoration(anchor, run, fileNameOuter))
           /\ Removes(allFileDecorations', Target) = Removes(allFileDecorations, Target)
           /\ OnlyTargetChanges

C1_AddRunConsumedInOneStep == [][C1_AddRunStep]_vars

\* a run of two add changes followed by another change has been consumed and
\* its decoration carries the length 2
C1_Witness ==
    /\ pc = "walk"
    /\ changeIndex = 2
    /\ Len(chunk.changes) > 2
    /\ chunk.changes[1] = "add" /\ chunk.changes[2] = "add"
    /\ chunk.changes[3] # "add"
    /\ actualNewLineCounter = chunk.newStart + 2
    /\ Has(Adds(allFileDecorations, Target), chunk.newStart - 1)
    /\ Get(Adds(allFileDecorations, Target), chunk.newStart - 1).blockLength = 2

(***************************************************************************)
(* C2: at a del change the walk consumes the whole maximal run of del      *)
(* changes in one step: the cursor and the old-line counter grow by the    *)
(* run length, the new-line counter is unchanged, and the removed map      *)
(* gains nothing or the one decoration at (new-line counter - 1) that      *)
(* carries the run length; nothing else of the accumulator changes.        *)
(***************************************************************************)
C2_DelRunStep ==
    AtChange("del") =>
        LET run == MaxRun(chunk.changes, changeIndex, "del")
            anchor == actualNewLineCounter - 1
        IN /\ run >= 1
           /\ changeIndex' = changeIndex + run
           /\ actualOldLineCounter' = actualOldLineCounter + run
           /\ actualNewLineCounter' = actualNewLineCounter
           /\ \/ Removes(allFileDecorations', Target) = Removes(allFileDecorations, Target)
              \/ Removes(allFileDecorations', Target) =
                    Append(Removes(allFileDecorations, Target),
                           Decoration(anchor, run, fileNameOuter))
           /\ Adds(allFileDecorations', Target) = Adds(allFileDecorations, Target)
           /\ OnlyTargetChanges

C2_DelRunConsumedInOneStep == [][C2_DelRunStep]_vars

\* a context change and then a run of two del changes have been consumed; the
\* removed decoration sits at the new-line counter - 1 and carries the length 2
C2_Witness ==
    /\ pc = "walk"
    /\ changeIndex = 3
    /\ Len(chunk.changes) = 3
    /\ chunk.changes = <<"normal", "del", "del">>
    /\ actualOldLineCounter = chunk.oldStart + 3
    /\ actualNewLineCounter = chunk.newStart + 1
    /\ Has(Removes(allFileDecorations, Target), actualNewLineCounter - 1)
    /\ Get(Removes(allFileDecorations, Target), actualNewLineCounter - 1).blockLength = 2

(***************************************************************************)
(* C3: while a chunk is walked, the new-line counter is newStart plus the  *)
(* number of context and add changes consumed so far and the old-line      *)
(* counter is oldStart plus the number of context and del changes consumed *)
(* so far.                                                                 *)
(***************************************************************************)
C3_CountersFollowPrefix ==
    pc = "walk" =>
        /\ changeIndex \in 0..Len(chunk.changes)
        /\ actualNewLineCounter = NewLineOf(chunk, changeIndex)
        /\ actualOldLineCounter = OldLineOf(chunk, changeIndex)

\* a chunk whose starts differ has been walked to its end across a context,
\* an add and a del change
C3_Witness ==
    /\ pc = "walk"
    /\ changeIndex = Len(chunk.changes)
    /\ chunk.oldStart # chunk.newStart
    /\ {"normal", "add", "del"} \subseteq {chunk.changes[j] : j \in 1..Len(chunk.changes)}
    /\ actualNewLineCounter # actualOldLineCounter

(***************************************************************************)
(* C4: first wins.  During a scan a decoration that the accumulator holds  *)
(* for a target, a kind and a line is never changed, moved or removed by a *)
(* later step: its block length and its patch file stay those of the block *)
(* that recorded it.                                                       *)
(***************************************************************************)
KeptIn(old, new) ==
    /\ Len(old) <= Len(new)
    /\ \A i \in 1..Len(old) : new[i] = old[i]

C4_FirstWinsStep ==
    pc # "idle" =>
        \A u \in DOMAIN allFileDecorations :
            /\ u \in DOMAIN allFileDecorations'
            /\ KeptIn(Adds(allFileDecorations, u), Adds(allFileDecorations', u))
            /\ KeptIn(Removes(allFileDecorations, u), Removes(allFileDecorations', u))

C4_FirstWins == [][C4_FirstWinsStep]_vars

\* a chunk that is one add run has been walked, and the line of its block
\* holds the decoration of an earlier patch file with another block length
C4_Witness ==
    /\ pc = "walk"
    /\ changeIndex = Len(chunk.changes)
    /\ changeIndex >= 1
    /\ \A j \in 1..Len(chunk.changes) : chunk.changes[j] = "add"
    /\ Has(Adds(allFileDecorations, Target), chunk.newStart - 1)
    /\ LET first == Get(Adds(allFileDecorations, Target), chunk.newStart - 1)
       IN /\ first.fileName < fileNameOuter
          /\ first.blockLength # Len(chunk.changes)

(***************************************************************************)
(* C5: the sample chunk (oldStart 10, newStart 10, context, three adds,    *)
(* two dels, context) walked into empty maps.                              *)
(***************************************************************************)
SampleWalked ==
    /\ pc = "walk"
    /\ chunk = SampleChunk
    /\ changeIndex = Len(chunk.changes)

\* C5 as stated: one added decoration at line 9 with block length 3 and one
\* removed decoration at line 12 with block length 2
C5_AsStated ==
    SampleWalked =>
        /\ Adds(allFileDecorations, Target) = <<Decoration(9, 3, fileNameOuter)>>
        /\ Removes(allFileDecorations, Target) = <<Decoration(12, 2, fileNameOuter)>>

\* C5 amended: the leading context change occupies new line 10, so the one
\* added decoration is at line 10 with block length 3 and the one removed
\* decoration is at line 13 with block length 2
C5_SampleChunk ==
    SampleWalked =>
        /\ Adds(allFileDecorations, Target) = <<Decoration(10, 3, fileNameOuter)>>
        /\ Removes(allFileDecorations, Target) = <<Decoration(13, 2, fileNameOuter)>>

C5_Witness ==
    /\ SampleWalked
    /\ Len(Adds(allFileDecorations, Target)) = 1
    /\ Len(Removes(allFileDecorations, Target)) = 1

(***************************************************************************)
(* C6: a del run that follows a context or add change of its chunk (a     *)
(* chunk whose newStart is 1 or more) is annotated on the line before the  *)
(* removed block: the removed decoration the run records sits at the       *)
(* zero-based new-file index of the last line consumed before the run.     *)
(***************************************************************************)
C6_DelRunStep ==
    /\ AtChange("del")
    /\ chunk.newStart >= 1
    /\ CountOf(chunk.changes, changeIndex, {"normal", "add"}) > 0
    =>
        \A l \in Keys(Removes(allFileDecorations', Target))
                 \ Keys(Removes(allFileDecorations, Target)) :
            \* NewLineOf is the 1-based line that follows the consumed ones
            l = (NewLineOf(chunk, changeIndex) - 1) - 1

C6_RemovedOnLineBefore == [][C6_DelRunStep]_vars

(***************************************************************************)
(* C7: after the scan every line added by a chunk (whose newStart is 1 or  *)
(* more) is covered by an added decoration of its target in the registry.  *)
(***************************************************************************)
Covered(decorations, l) ==
    \E i \in 1..Len(decorations) :
        decorations[i].line <= l /\ l <= decorations[i].endLine

C7_EveryAddedLineHighlighted ==
    pc = "done" =>
        \A u \in WorkspaceFiles : \A l \in addedLines[u] :
            /\ u \in DOMAIN activeDecorations
            /\ Covered(activeDecorations[u].add, l)

(***************************************************************************)
(* C8: when the walk stands at the first change of a chunk with newStart 1 *)
(* and that change is an add, the step leaves an added decoration at line  *)
(* 0 of the target; when none was there before, it is the decoration of    *)
(* this block.                                                             *)
(***************************************************************************)
C8_LeadingAddStep ==
    /\ AtChange("add")
    /\ changeIndex = 0
    /\ chunk.newStart = 1
    =>
        /\ Has(Adds(allFileDecorations', Target), 0)
        /\ ~Has(Adds(allFileDecorations, Target), 0) =>
              Get(Adds(allFileDecorations', Target), 0) =
                  Decoration(0, MaxRun(chunk.changes, 0, "add"), fileNameOuter)

C8_LeadingAddRecorded == [][C8_LeadingAddStep]_vars

\* the leading add run of a chunk with newStart 1 has been consumed and line 0
\* carries its decoration
C8_Witness ==
    /\ pc = "walk"
    /\ chunk.newStart = 1
    /\ changeIndex >= 1
    /\ \A j \in 1..changeIndex : chunk.changes[j] = "add"
    /\ Has(Adds(allFileDecorations, Target), 0)
    /\ Get(Adds(allFileDecorations, Target), 0) =
          Decoration(0, changeIndex, fileNameOuter)

(***************************************************************************)
(* C9: a block whose anchor (new-line counter - 1) is negative records     *)
(* nothing: the step leaves the accumulator as it is and still advances    *)
(* the cursor and the counter of its kind by the run length; and no        *)
(* decoration of the accumulator or of the registry has a line below 0.    *)
(***************************************************************************)
NoNegativeLine(all, registry) ==
    /\ \A u \in DOMAIN all :
          \A l \in Keys(all[u].adds) \cup Keys(all[u].removes) : l >= 0
    /\ \A u \in DOMAIN registry :
          \A l \in Keys(registry[u].add) \cup Keys(registry[u].remove) : l >= 0

C9_NegativeAnchorStep ==
    /\ AtChange("add") /\ actualNewLineCounter - 1 < 0 =>
          /\ allFileDecorations' = allFileDecorations
          /\ changeIndex' = changeIndex + MaxRun(chunk.changes, changeIndex, "add")
          /\ actualNewLineCounter' =
                actualNewLineCounter + MaxRun(chunk.changes, changeIndex, "add")
    /\ AtChange("del") /\ actualNewLineCounter - 1 < 0 =>
          /\ allFileDecorations' = allFileDecorations
          /\ changeIndex' = changeIndex + MaxRun(chunk.changes, changeIndex, "del")
          /\ actualOldLineCounter' =
                actualOldLineCounter + MaxRun(chunk.changes, changeIndex, "del")
    /\ NoNegativeLine(allFileDecorations', activeDecorations')

C9_NegativeAnchorDiscarded == [][C9_NegativeAnchorStep]_vars

\* a del run at the start of a chunk with newStart 0 has been consumed, the
\* old-line counter has advanced and the target has no removed decoration
C9_Witness ==
    /\ pc = "walk"
    /\ chunk.newStart = 0
    /\ changeIndex >= 2
    /\ \A j \in 1..changeIndex : chunk.changes[j] = "del"
    /\ actualOldLineCounter = chunk.oldStart + changeIndex
    /\ Removes(allFileDecorations, Target) = <<>>
    /\ Adds(allFileDecorations, Target) = <<>>

(***************************************************************************)
(* C10 as stated: no added and no removed decoration is ever recorded at   *)
(* line 0.                                                                 *)
(***************************************************************************)
C10_AsStated ==
    \A u \in DOMAIN allFileDecorations :
        /\ ~Has(Adds(allFileDecorations, u), 0)
        /\ ~Has(Removes(allFileDecorations, u), 0)

(***************************************************************************)
(* C10 amended: a block whose anchor is zero is recorded, not discarded:   *)
(* after an add (del) run that starts with the new-line counter at 1 the   *)
(* added (removed) map of the target has a decoration at line 0, and when  *)
(* none was there before it is the decoration of this block.               *)
(***************************************************************************)
C10_ZeroAnchorStep ==
    /\ AtChange("add") /\ actualNewLineCounter = 1 =>
          /\ Has(Adds(allFileDecorations', Target), 0)
          /\ ~Has(Adds(allFileDecorations, Target), 0) =>
                Get(Adds(allFileDecorations', Target), 0) =
                    Decoration(0, MaxRun(chunk.changes, changeIndex, "add"),
                               fileNameOuter)
    /\ AtChange("del") /\ actualNewLineCounter = 1 =>
          /\ Has(Removes(allFileDecorations', Target), 0)
          /\ ~Has(Removes(allFileDecorations, Target), 0) =>
                Get(Removes(allFileDecorations', Target), 0) =
                    Decoration(0, MaxRun(chunk.changes, changeIndex, "del"),
                               fileNameOuter)

C10_ZeroAnchorRecorded == [][C10_ZeroAnchorStep]_vars

\* a del run that started with the new-line counter at 1 has been consumed
\* and line 0 carries its removed decoration
C10_Witness ==
    /\ pc = "walk"
    /\ changeIndex >= 1
    /\ chunk.changes[changeIndex] = "del"
    /\ actualNewLineCounter = 1
    /\ Has(Removes(allFileDecorations, Target), 0)
    /\ Get(Removes(allFileDecorations, Target), 0).fileName = fileNameOuter

(***************************************************************************)
(* C11: a chunk that holds context changes only produces no annotation:    *)
(* each of its steps leaves the accumulator as it is and advances the      *)
(* cursor and both counters by one, and when its last change is consumed   *)
(* the target has no added and no removed decoration and each counter is   *)
(* its start value plus the number of changes of the chunk.                *)
(***************************************************************************)
ContextOnly(c) ==
    /\ Len(c.changes) >= 1
    /\ \A j \in 1..Len(c.changes) : c.changes[j] = "normal"

C11_ContextStep ==
    /\ AtChange("normal") =>
          /\ allFileDecorations' = allFileDecorations
          /\ changeIndex' = changeIndex + 1
          /\ actualNewLineCounter' = actualNewLineCounter + 1
          /\ actualOldLineCounter' = actualOldLineCounter + 1
    /\ pc' = "walk" /\ ContextOnly(chunk') /\ changeIndex' = Len(chunk'.changes) =>
          /\ actualNewLineCounter' = chunk'.newStart + Len(chunk'.changes)
          /\ actualOldLineCounter' = chunk'.oldStart + Len(chunk'.changes)
          /\ Adds(allFileDecorations', Target') = <<>>
          /\ Removes(allFileDecorations', Target') = <<>>

C11_ContextOnlyChunk == [][C11_ContextStep]_vars

\* a chunk of three context changes whose starts differ has been walked to
\* its end
C11_Witness ==
    /\ pc = "walk"
    /\ ContextOnly(chunk)
    /\ Len(chunk.changes) = 3
    /\ changeIndex = 3
    /\ chunk.oldStart # chunk.newStart
    /\ actualNewLineCounter = chunk.newStart + 3
    /\ actualOldLineCounter = chunk.oldStart + 3
    /\ Adds(allFileDecorations, Target) = <<>>
    /\ Removes(allFileDecorations, Target) = <<>>

(***************************************************************************)
(* C12: a chunk with no changes emits no annotation and raises no error:   *)
(* the step that takes it and the step that leaves it keep the accumulator *)
(* of every target and the reported errors as they are, and the walk goes  *)
(* on with the next chunk of the entry.                                    *)
(***************************************************************************)
C12_EmptyChunkStep ==
    /\ pc = "chunks" /\ pc' = "walk" /\ chunk'.changes = <<>> =>
          /\ allFileDecorations' = allFileDecorations
          /\ errors' = errors
    /\ pc = "walk" /\ chunk.changes = <<>> =>
          /\ allFileDecorations' = allFileDecorations
          /\ errors' = errors
          /\ pc' \in {"walk", "chunks"}
          /\ ENABLED EndChunk

C12_EmptyChunk == [][C12_EmptyChunkStep]_vars

\* a chunk with no changes of the second patch file has been taken while the
\* accumulator holds the decoration that the first patch file recorded for
\* its target
C12_Witness ==
    /\ pc = "walk"
    /\ chunk.changes = <<>>
    /\ changeIndex = 0
    /\ fileNameOuter = 2
    /\ Len(Adds(allFileDecorations, Target)) = 1
    /\ Adds(allFileDecorations, Target)[1].fileName = 1
    /\ errors = {}

(***************************************************************************)
(* C13: cross-file isolation.  Taking an entry that resolves to a target   *)
(* and walking its chunks changes the maps of that target only: the maps   *)
(* of every other target of the accumulator stay as they are, also when    *)
(* both targets are entries of the same patch file.                        *)
(***************************************************************************)
C13_IsolationStep ==
    /\ pc = "entries" /\ pc' = "chunks" =>
          \A u \in DOMAIN allFileDecorations :
              u # Target' =>
                  /\ u \in DOMAIN allFileDecorations'
                  /\ allFileDecorations'[u] = allFileDecorations[u]
    /\ pc \in {"chunks", "walk"} =>
          /\ DOMAIN allFileDecorations' = DOMAIN allFileDecorations
          /\ \A u \in DOMAIN allFileDecorations :
                u # Target => allFileDecorations'[u] = allFileDecorations[u]

C13_CrossFileIsolation == [][C13_IsolationStep]_vars

\* a chunk of the entry for A.ts has recorded a decoration while the maps of
\* B.ts hold a decoration of another line from the same patch file
C13_Witness ==
    /\ pc = "walk"
    /\ Target = "A.ts"
    /\ changeIndex = Len(chunk.changes)
    /\ "B.ts" \in DOMAIN allFileDecorations
    /\ \E i \in 1..Len(Adds(allFileDecorations, "A.ts")) :
          Adds(allFileDecorations, "A.ts")[i].fileName = fileNameOuter
    /\ \E i \in 1..Len(Removes(allFileDecorations, "B.ts")) :
          /\ Removes(allFileDecorations, "B.ts")[i].fileName = fileNameOuter
          /\ ~Has(Adds(allFileDecorations, "A.ts"),
                  Removes(allFileDecorations, "B.ts")[i].line)
    /\ Removes(allFileDecorations, "A.ts") = <<>>
    /\ Adds(allFileDecorations, "B.ts") = <<>>

(***************************************************************************)
(* C14: empty input.  When the scan has ended and every patch file it read *)
(* was blank, held no entry, or held only entries that are skipped (no     *)
(* path, the no-file sentinel, a path that is not in the workspace), the   *)
(* registry is empty and no error was reported.                            *)
(***************************************************************************)
C14_EmptyInput ==
    pc = "done" /\ met = {} =>
        /\ activeDecorations = EmptyMap
        /\ allFileDecorations = EmptyMap
        /\ errors = {}

\* the scan has read every patch file of the listing, none of them gave a
\* target or threw, and the result is published
C14_Witness ==
    /\ pc = "done"
    /\ met = {}
    /\ fileNameOuter = MaxPatchFiles
    /\ activeDecorations = EmptyMap

(***************************************************************************)
(* C15: an entry whose new path is the no-file sentinel, or that has no    *)
(* path at all, contributes nothing: the step that takes it leaves the     *)
(* accumulator as it is (no annotation, no entry for any target) and the   *)
(* loop stays at the entries of the patch file, also when the old path of  *)
(* the entry names a file of the workspace.                                *)
(***************************************************************************)
C15_SentinelStep ==
    pc = "entries" /\ pc' # "files" /\ NamesNoFile(diffFile') =>
        /\ allFileDecorations' = allFileDecorations
        /\ pc' = "entries"

C15_SentinelSkipped == [][C15_SentinelStep]_vars

\* a pure deletion whose old path names a workspace file has been taken as
\* the first entry of the scan and the accumulator has no entry
C15_Witness ==
    /\ pc = "entries"
    /\ diffFile.to = DevNull
    /\ FindFileInWorkspace(CleanedFilePath(diffFile.from)) \in WorkspaceFiles
    /\ allFileDecorations = EmptyMap

(***************************************************************************)
(* The blocks of a chunk, described by its change list alone.              *)
(***************************************************************************)
\* the zero-based indices at which a maximal run of one type starts
BlockStarts(c, type) ==
    {i \in 0..(Len(c.changes) - 1) :
        /\ c.changes[i + 1] = type
        /\ i = 0 \/ c.changes[i] # type}

\* the lines on which the blocks of one type of a chunk are anchored
Anchors(c, type) == {NewLineOf(c, i) - 1 : i \in BlockStarts(c, type)}

\* no two chunks of the list anchor a block on the same line
DisjointAnchors(cs) ==
    \A i, j \in 1..Len(cs) :
        i # j =>
            (Anchors(cs[i], "add") \cup Anchors(cs[i], "del"))
                \cap (Anchors(cs[j], "add") \cup Anchors(cs[j], "del")) = {}

AnnotationSet(decorations) == {decorations[i] : i \in 1..Len(decorations)}

BothWalked == inOrder # NotWalked /\ permuted # NotWalked

(***************************************************************************)
(* C17 as stated: when the chunks of an entry anchor their blocks on       *)
(* pairwise disjoint lines, walking them in another order publishes the    *)
(* same added and the same removed collection, the collections being the   *)
(* ordered arrays that Array.from makes of the maps.                       *)
(***************************************************************************)
C17_AsStated ==
    BothWalked /\ DisjointAnchors(hunks) =>
        /\ permuted.add = inOrder.add
        /\ permuted.remove = inOrder.remove

(***************************************************************************)
(* C17 amended: when the chunks of an entry anchor their blocks on         *)
(* pairwise disjoint lines, walking them in another order publishes the    *)
(* same set of added and the same set of removed annotations, in arrays of *)
(* the same length; the order of the annotations in the arrays follows the *)
(* order in which the chunks were walked.                                  *)
(***************************************************************************)
C17_SameAnnotationSets ==
    BothWalked /\ DisjointAnchors(hunks) =>
        /\ AnnotationSet(permuted.add) = AnnotationSet(inOrder.add)
        /\ AnnotationSet(permuted.remove) = AnnotationSet(inOrder.remove)
        /\ Len(permuted.add) = Len(inOrder.add)
        /\ Len(permuted.remove) = Len(inOrder.remove)

\* two chunks with disjoint anchors, each with an add block that is
\* recorded, have been walked in both orders
C17_Witness ==
    /\ BothWalked
    /\ Len(hunks) = 2
    /\ permuted.order = <<2, 1>>
    /\ DisjointAnchors(hunks)
    /\ Len(inOrder.add) = 2
    /\ permuted.add = <<inOrder.add[2], inOrder.add[1]>>

(***************************************************************************)
(* C18: the block counts are accurate.  When every block of the chunks     *)
(* walked for a target has an anchor of 0 or more and no two blocks of the *)
(* same kind have the same anchor (none is dropped by first-wins), the     *)
(* block lengths of the added annotations sum to the number of add changes *)
(* and those of the removed annotations to the number of del changes.      *)
(***************************************************************************)
RECURSIVE SumBlockLengths(_)
SumBlockLengths(decorations) ==
    IF decorations = <<>>
    THEN 0
    ELSE Head(decorations).blockLength + SumBlockLengths(Tail(decorations))

RECURSIVE ChangesOfType(_, _)
ChangesOfType(cs, type) ==
    IF cs = <<>>
    THEN 0
    ELSE CountOf(Head(cs).changes, Len(Head(cs).changes), {type})
             + ChangesOfType(Tail(cs), type)

\* every block of the type is recorded: its anchor is accepted and no other
\* block of the type, of the same or of another chunk, has the same anchor
AllBlocksRecorded(cs, type) ==
    /\ \A i \in 1..Len(cs) : \A a \in Anchors(cs[i], type) : a >= 0
    /\ \A i \in 1..Len(cs) :
          Cardinality(Anchors(cs[i], type)) = Cardinality(BlockStarts(cs[i], type))
    /\ \A i, j \in 1..Len(cs) :
          i # j => Anchors(cs[i], type) \cap Anchors(cs[j], type) = {}

C18_BlockCountsAccurate ==
    inOrder # NotWalked =>
        /\ AllBlocksRecorded(hunks, "add") =>
              SumBlockLengths(inOrder.add) = ChangesOfType(hunks, "add")
        /\ AllBlocksRecorded(hunks, "del") =>
              SumBlockLengths(inOrder.remove) = ChangesOfType(hunks, "del")

\* two chunks have been walked, every block is recorded, one block is a run
\* of two add changes and another chunk holds a del change
C18_Witness ==
    /\ inOrder # NotWalked
    /\ Len(hunks) = 2
    /\ AllBlocksRecorded(hunks, "add")
    /\ AllBlocksRecorded(hunks, "del")
    /\ ChangesOfType(hunks, "add") = 2
    /\ ChangesOfType(hunks, "del") = 1
    /\ Len(inOrder.add) = 1
    /\ inOrder.add[1].blockLength = 2
    /\ Len(inOrder.remove) = 1

(***************************************************************************)
(* C19: partial-failure isolation.  When the scan has ended, every patch   *)
(* file that threw has been reported, and for every target the published   *)
(* annotations that come from the patch files that did not throw are the   *)
(* annotations the same scan publishes when the patch files that threw are *)
(* absent from the listing.                                                *)
(***************************************************************************)
\* the annotations that no failed patch file recorded
FromWellFormed(decorations) ==
    SelectSeq(decorations, LAMBDA d : d.fileName \notin errors)

PublishedFor(u) ==
    IF u \in DOMAIN activeDecorations
    THEN activeDecorations[u]
    ELSE [add |-> <<>>, remove |-> <<>>]

ExpectedFor(u) ==
    IF u \in DOMAIN expected
    THEN [add |-> ValuesOf(expected[u].adds), remove |-> ValuesOf(expected[u].removes)]
    ELSE [add |-> <<>>, remove |-> <<>>]

C19_PartialFailureIsolation ==
    pc = "done" =>
        /\ ~malformed
        /\ ("failed" \in met) = (errors # {})
        /\ \A u \in WorkspaceFiles :
              /\ FromWellFormed(PublishedFor(u).add) = ExpectedFor(u).add
              /\ FromWellFormed(PublishedFor(u).remove) = ExpectedFor(u).remove

(***************************************************************************)
(* C20: an entry whose path names no file of the workspace is skipped      *)
(* without an error: the step that takes it changes nothing but the loop   *)
(* variable (no annotation, no accumulator entry, no error report, the     *)
(* same patch file), and after it the next entry of the patch file can be  *)
(* taken.                                                                  *)
(***************************************************************************)
\* the entry names a path, and the path is not of a workspace file
NamesMissingFile(df) ==
    /\ df.to # Undefined
    /\ df.to # DevNull
    /\ df.to[Len(df.to)] \notin WorkspaceFiles

C20_UnresolvedStep ==
    pc = "entries" /\ NamesMissingFile(diffFile') =>
        /\ pc' = "entries"
        /\ allFileDecorations' = allFileDecorations
        /\ errors' = errors
        /\ UNCHANGED <<fileNameOuter, chunk, changeIndex, actualNewLineCounter,
                       actualOldLineCounter, activeDecorations, walked, addedLines,
                       malformed, expected, met, pureVars, eventVars, editors>>

C20_UnresolvedSkipped ==
    /\ [][C20_UnresolvedStep]_vars
    /\ [](pc = "entries" /\ NamesMissingFile(diffFile) =>
              ENABLED (\E df \in DiffFiles : NextDiffFile(df)))

\* in the second patch file an entry for a file that is not in the workspace
\* has been taken after the first patch file recorded a decoration; the
\* accumulator holds only that decoration and no error is reported
C20_Witness ==
    /\ pc = "entries"
    /\ NamesMissingFile(diffFile)
    /\ fileNameOuter = 2
    /\ errors = {}
    /\ DOMAIN allFileDecorations = {"A.ts"}
    /\ Len(Adds(allFileDecorations, "A.ts")) = 1
    /\ Adds(allFileDecorations, "A.ts")[1].fileName = 1

(***************************************************************************)
(* Claims about invocations that follow one another or interleave.         *)
(***************************************************************************)
\* what the registry holds when just the accumulator all has been published
ResultOf(all) == Published(EmptyMap, all)

\* C21: when a scan runs with no other scan in flight from its call to its
\* return, the step on which it returns leaves in the registry exactly the
\* targets and annotations of its own accumulator; nothing an earlier scan
\* published is left, also for targets no patch names any more
C21_CompletionStep ==
    \A s \in ScanIds :
        InFlight(s) /\ scans'[s].pc = "done" /\ s \notin overlapped =>
            activeDecorations' = ResultOf(scans'[s].allFileDecorations)

C21_ScanAloneReplaces == [][C21_CompletionStep]_vars

\* scan A ran alone and published annotations for A.ts; scan B then ran
\* alone over patch files that name only B.ts, and the registry holds B.ts
\* alone
C21_Witness ==
    /\ scans["A"].pc = "done"
    /\ scans["B"].pc = "done"
    /\ latest.scan = "B"
    /\ overlapped = {}
    /\ "A.ts" \in DOMAIN scans["A"].allFileDecorations
    /\ Len(Adds(scans["A"].allFileDecorations, "A.ts")) = 1
    /\ DOMAIN scans["B"].allFileDecorations = {"B.ts"}
    /\ DOMAIN activeDecorations = {"B.ts"}
    /\ Len(activeDecorations["B.ts"].add) = 1

\* C22: stale results are discarded: when the scan started by the later
\* event has already returned, the return of a scan started by an earlier
\* event neither overwrites nor adds to what the later scan published, and
\* the registry is then the later scan's result
C22_StaleCompletionStep ==
    \A s \in ScanIds :
        /\ InFlight(s)
        /\ scans'[s].pc = "done"
        /\ latest.scan \in ScanIds \ {s}
        /\ scans[latest.scan].pc = "done"
        => /\ activeDecorations' = activeDecorations
           /\ activeDecorations' = ResultOf(scans[latest.scan].allFileDecorations)

C22_StaleResultsDiscarded == [][C22_StaleCompletionStep]_vars

\* C23: scans are serialized: at most one invocation of
\* scanAndProcessAllTayloredFiles is between its call and its return at any
\* time; an event that arrives while one is running starts no second one
C23_ScansSerialized ==
    Cardinality({s \in ScanIds : InFlight(s)}) <= 1

\* C24: invocations that interleave share no computation state: a step
\* changes the locals (position, patch file, accumulator) of one invocation
\* at most, and the accumulator that invocation goes on with is computed
\* from its own accumulator, its own patch file and the entry at hand, as
\* when it runs alone
C24_LocalsStep ==
    \A s \in ScanIds :
        scans'[s] # scans[s] =>
            /\ \A t \in ScanIds \ {s} : scans'[t] = scans[t]
            /\ \/ scans'[s].allFileDecorations = scans[s].allFileDecorations
               \/ ~InFlight(s) /\ scans'[s].allFileDecorations = EmptyMap
               \/ \E df \in EventDiffFiles, cs \in EventChunkLists :
                     scans'[s].allFileDecorations =
                         AfterEntry(scans[s].allFileDecorations, df, cs,
                                    scans[s].fileNameOuter)

C24_NoSharedLocals == [][C24_LocalsStep]_vars

\* two invocations are both awaiting findFileInWorkspace, in different patch
\* files, and hold different accumulators: A recorded A.ts only, B recorded
\* B.ts only
C24_Witness ==
    /\ scans["A"].pc = "findFile"
    /\ scans["B"].pc = "findFile"
    /\ scans["A"].fileNameOuter # scans["B"].fileNameOuter
    /\ DOMAIN scans["A"].allFileDecorations = {"A.ts"}
    /\ DOMAIN scans["B"].allFileDecorations = {"B.ts"}
    /\ Len(Adds(scans["A"].allFileDecorations, "A.ts")) = 1
    /\ Len(Adds(scans["B"].allFileDecorations, "B.ts")) = 1

(***************************************************************************)
(* Claims about the CLI commands and the configuration changes.            *)
(***************************************************************************)
\* C25: when a taylored command that can change the patch files (--add,
\* --remove, --save, --offset) succeeds, the refresh has been triggered by
\* the time its result is returned; when a command fails, no refresh is
\* triggered and the step that returns the failure leaves the registry and
\* the invocations as they are
C25_ResolveStep ==
    /\ command.pc # "resolved" /\ command'.pc = "resolved" /\ command'.success
         /\ command.arg \in {"--add", "--remove", "--save", "--offset"}
         => command.refreshed \in {"requested", "handled"}
    /\ command'.pc = "resolved" /\ ~command'.success
         => /\ command'.refreshed = "no"
            /\ command.pc = "exec" =>
                  UNCHANGED <<activeDecorations, scans, latest>>

C25_RefreshBeforeResult == [][C25_ResolveStep]_vars

\* taylored --offset succeeded and its result was returned; the refresh it
\* triggered has run a scan to its end and the registry holds that scan's
\* annotation for A.ts
C25_Witness ==
    /\ command.pc = "resolved"
    /\ command.success
    /\ command.arg = "--offset"
    /\ command.refreshed = "handled"
    /\ latest = [scan |-> "A", event |-> "command"]
    /\ scans["A"].pc = "done"
    /\ "A.ts" \in DOMAIN activeDecorations
    /\ Len(activeDecorations["A.ts"].add) = 1

\* the function is called for invocation s on this step
CalledOnStep(s) ==
    /\ ~InFlight(s)
    /\ latest'.scan = s
    /\ scans'[s].pc \in {"readDirectory", "done"}
    /\ scans'[s].allFileDecorations = EmptyMap
    /\ scans'[s].fileNameOuter = 0
    /\ activeDecorations' = EmptyMap

\* C26 as stated: every configuration change that affects the section
\* triggers a re-scan, whatever the registry holds
C26_AsStated ==
    [][decorationTypes' # decorationTypes =>
          latest'.event = "configuration" /\ CalledOnStep("A")]_vars

\* C26: a configuration change that affects the section creates the
\* decoration types anew, and it triggers a re-scan when the registry holds
\* at least one entry at that moment; with an empty registry no scan is
\* called and the registry and the invocations stay as they are
C26_ConfigurationStep ==
    decorationTypes' # decorationTypes =>
        IF activeDecorations # EmptyMap
        THEN latest'.event = "configuration" /\ CalledOnStep("A")
        ELSE UNCHANGED <<activeDecorations, scans, latest>>

C26_RescanWhenRegistryHolds == [][C26_ConfigurationStep]_vars

\* a configuration change found the registry holding an entry and called
\* the function: the registry is cleared and the invocation awaits the
\* directory
C26_Witness ==
    /\ decorationTypes = 1
    /\ latest = [scan |-> "A", event |-> "configuration"]
    /\ scans["A"].pc = "readDirectory"
    /\ activeDecorations = EmptyMap

(***************************************************************************)
(* Claims about the walk of the hunks of one entry.                        *)
(***************************************************************************)
\* the annotation attempts of one type that the chunks cs give when each
\* chunk is taken by itself: one per maximal run inside a chunk, anchored
\* by that chunk's own newStart, with the length of the run
AttemptsOf(cs, type) ==
    UNION {{[line |-> NewLineOf(cs[i], b) - 1,
             blockLength |-> MaxRun(cs[i].changes, b, type)] :
                b \in BlockStarts(cs[i], type)} : i \in 1..Len(cs)}

\* C27: the counters are set anew for every hunk from its own newStart, and
\* no block extends across a hunk boundary: the recorded annotations of a
\* type are attempts of single hunks (anchor from that hunk's start, length
\* of the run inside that hunk), and every attempt with an anchor of 0 or
\* more has its line recorded
C27_CountersPerHunk ==
    inOrder # NotWalked =>
        /\ \A k \in 1..Len(inOrder.add) :
              [line |-> inOrder.add[k].line,
               blockLength |-> inOrder.add[k].blockLength]
                  \in AttemptsOf(hunks, "add")
        /\ \A k \in 1..Len(inOrder.remove) :
              [line |-> inOrder.remove[k].line,
               blockLength |-> inOrder.remove[k].blockLength]
                  \in AttemptsOf(hunks, "del")
        /\ Keys(inOrder.add) =
              {a.line : a \in {b \in AttemptsOf(hunks, "add") : b.line >= 0}}
        /\ Keys(inOrder.remove) =
              {a.line : a \in {b \in AttemptsOf(hunks, "del") : b.line >= 0}}

\* the first hunk ends with an add run and the second starts with one; two
\* added annotations are recorded, the second on the line of the second
\* hunk's own newStart, which lies before the line the first hunk reached
C27_Witness ==
    /\ inOrder # NotWalked
    /\ Len(hunks) = 2
    /\ hunks[1].changes # <<>>
    /\ hunks[1].changes[Len(hunks[1].changes)] = "add"
    /\ hunks[2].changes # <<>>
    /\ hunks[2].changes[1] = "add"
    /\ Len(inOrder.add) = 2
    /\ inOrder.add[2].line = hunks[2].newStart - 1
    /\ inOrder.add[2].blockLength = 1
    /\ inOrder.add[2].line < inOrder.add[1].line

\* the decorations of a map lie on strictly increasing lines in the order
\* in which they were recorded
StrictlyIncreasing(map) ==
    \A i, j \in 1..Len(map) : i < j => map[i].line < map[j].line

\* the changes of the chunk are of the kinds a hunk holds: context, add, delete
KnownKinds(c) == \A i \in 1..Len(c.changes) : c.changes[i] \in {"normal", "add", "del"}

\* C28: within one hunk with newStart >= 1, walked from an empty
\* accumulator, the anchors of successive add blocks are strictly increasing
\* and so are those of successive delete blocks; the hunk records one added
\* annotation per maximal add run and one removed annotation per maximal
\* delete run, none dropped by first-wins
C28_AnchorsIncrease ==
    /\ pc = "walk"
    /\ changeIndex >= Len(chunk.changes)
    /\ chunk.newStart >= 1
    /\ KnownKinds(chunk)
    => /\ StrictlyIncreasing(Adds(allFileDecorations, Target))
       /\ StrictlyIncreasing(Removes(allFileDecorations, Target))
       /\ Len(Adds(allFileDecorations, Target)) = Cardinality(BlockStarts(chunk, "add"))
       /\ Len(Removes(allFileDecorations, Target)) = Cardinality(BlockStarts(chunk, "del"))
       /\ Keys(Adds(allFileDecorations, Target)) = Anchors(chunk, "add")
       /\ Keys(Removes(allFileDecorations, Target)) = Anchors(chunk, "del")

\* a hunk with two delete runs and an add run between them has been walked:
\* two removed annotations and one added annotation are recorded
C28_Witness ==
    /\ pc = "walk"
    /\ changeIndex >= Len(chunk.changes)
    /\ chunk.newStart >= 1
    /\ chunk.changes = <<"del", "add", "del">>
    /\ Len(Removes(allFileDecorations, Target)) = 2
    /\ Len(Adds(allFileDecorations, Target)) = 1
    /\ Removes(allFileDecorations, Target)[1].line < Removes(allFileDecorations, Target)[2].line

\* C29: a delete run immediately followed by an add run in the same hunk
\* records a removed and an added annotation at the same zero-based line;
\* the two kinds are kept in separate maps: a step that records one kind
\* leaves the map of the other kind as it is, and an annotation of the other
\* kind on the line never keeps the block from being recorded
C29_ReplacementStep ==
    /\ AtChange("add") =>
          LET anchor == actualNewLineCounter - 1
              adds == Adds(allFileDecorations, Target)
          IN /\ Removes(allFileDecorations', Target) = Removes(allFileDecorations, Target)
             /\ anchor >= 0 /\ ~Has(adds, anchor) =>
                   Adds(allFileDecorations', Target) =
                       Append(adds, Decoration(anchor,
                                               MaxRun(chunk.changes, changeIndex, "add"),
                                               fileNameOuter))
             /\ changeIndex > 0 /\ chunk.changes[changeIndex] = "del" /\ anchor >= 0 =>
                   /\ Has(Removes(allFileDecorations', Target), anchor)
                   /\ Has(Adds(allFileDecorations', Target), anchor)
    /\ AtChange("del") =>
          LET anchor == actualNewLineCounter - 1
              removes == Removes(allFileDecorations, Target)
          IN /\ Adds(allFileDecorations', Target) = Adds(allFileDecorations, Target)
             /\ anchor >= 0 /\ ~Has(removes, anchor) =>
                   Removes(allFileDecorations', Target) =
                       Append(removes, Decoration(anchor,
                                                  MaxRun(chunk.changes, changeIndex, "del"),
                                                  fileNameOuter))

C29_KindsInSeparateMaps == [][C29_ReplacementStep]_vars

\* the hunk (newStart 1, [del, add]) has been walked: line 0 holds a removed
\* annotation and an added annotation
C29_Witness ==
    /\ pc = "walk"
    /\ chunk.newStart = 1
    /\ chunk.changes = <<"del", "add">>
    /\ changeIndex = 2
    /\ Len(Adds(allFileDecorations, Target)) = 1
    /\ Len(Removes(allFileDecorations, Target)) = 1
    /\ Adds(allFileDecorations, Target)[1].line = 0
    /\ Removes(allFileDecorations, Target)[1].line = 0

\* the chunk c with its old side starting at line o
WithOldStart(c, o) == [c EXCEPT !.oldStart = o]

\* C30: the annotations never depend on the old-file counter: when a hunk
\* has been walked from an empty accumulator, the added and the removed
\* annotations recorded (anchors, block lengths, labels) are those of the
\* same hunk with any other oldStart
C30_OldStartIrrelevant ==
    pc = "walk" /\ changeIndex >= Len(chunk.changes) =>
        \A o \in 0..(MaxStart + MaxChanges) :
            LET w == WalkChunks([adds |-> EmptyMap, removes |-> EmptyMap],
                                <<WithOldStart(chunk, o)>>,
                                [new |-> 0, old |-> 0], fileNameOuter)
            IN /\ w.adds = Adds(allFileDecorations, Target)
               /\ w.removes = Removes(allFileDecorations, Target)

\* a hunk whose old side starts at line 0 and whose new side starts at line
\* 1 has been walked; its delete run is recorded at line 0 and its add run
\* at line 1
C30_Witness ==
    /\ pc = "walk"
    /\ changeIndex >= Len(chunk.changes)
    /\ chunk.oldStart = 0
    /\ chunk.newStart = 1
    /\ chunk.changes = <<"del", "normal", "add">>
    /\ Len(Removes(allFileDecorations, Target)) = 1
    /\ Removes(allFileDecorations, Target)[1].line = 0
    /\ Len(Adds(allFileDecorations, Target)) = 1
    /\ Adds(allFileDecorations, Target)[1].line = 1

(***************************************************************************)
(* The earlier walk of the hunks, one annotation attempt per change        *)
(* (src/unnamed/part_002, lines 834-862).                                  *)
(***************************************************************************)
\* the map after the guarded set of a branch of the per-change walk
PerChangeRecorded(map, line, fileName) ==
    IF line >= 0
    THEN IF ~Has(map, line)
         THEN Append(map, [line |-> line, fileName |-> fileName])
         ELSE map
    ELSE map

\* chunk.changes.forEach from the walk state w to the end of chunk c
RECURSIVE PerChangeFrom(_, _, _)
PerChangeFrom(w, c, fileName) ==
    IF w.changeIndex >= Len(c.changes)
    THEN w
    ELSE LET type == ChangeAt(c.changes, w.changeIndex)
         IN IF type = "add"
            THEN PerChangeFrom([w EXCEPT !.changeIndex = @ + 1,
                                         !.new = @ + 1,
                                         !.adds = PerChangeRecorded(@, w.new - 1,
                                                                    fileName)],
                               c, fileName)
            ELSE IF type = "del"
            THEN PerChangeFrom([w EXCEPT !.changeIndex = @ + 1,
                                         !.old = @ + 1,
                                         !.removes = PerChangeRecorded(@, w.new - 1,
                                                                       fileName)],
                               c, fileName)
            ELSE IF type = "normal"
            THEN PerChangeFrom([w EXCEPT !.changeIndex = @ + 1,
                                         !.new = @ + 1,
                                         !.old = @ + 1],
                               c, fileName)
            ELSE PerChangeFrom([w EXCEPT !.changeIndex = @ + 1], c, fileName)

\* the forEach over the chunks of one entry, from the maps decs
RECURSIVE PerChangeChunks(_, _, _)
PerChangeChunks(decs, cs, fileName) ==
    IF cs = <<>>
    THEN decs
    ELSE LET w == PerChangeFrom([changeIndex |-> 0,
                                 new |-> Head(cs).newStart,
                                 old |-> Head(cs).oldStart,
                                 adds |-> decs.adds, removes |-> decs.removes],
                                Head(cs), fileName)
         IN PerChangeChunks([adds |-> w.adds, removes |-> w.removes], Tail(cs),
                            fileName)

\* what the per-change walk publishes for the chunks of one entry
PerChangeForEach(cs) ==
    LET decs == PerChangeChunks([adds |-> EmptyMap, removes |-> EmptyMap], cs, 1)
    IN [add |-> ValuesOf(decs.adds), remove |-> ValuesOf(decs.removes)]

\* C31: on every sequence of hunks the block walk and the per-change walk
\* record the same set of removed anchor lines, and the added anchor lines
\* of the block walk are a subset of those of the per-change walk: the
\* first line of each add run
C31_BlockRefinesPerChange ==
    inOrder # NotWalked =>
        LET perChange == PerChangeForEach(hunks)
        IN /\ Keys(inOrder.remove) = Keys(perChange.remove)
           /\ Keys(inOrder.add) \subseteq Keys(perChange.add)
           /\ Keys(inOrder.add) =
                 {a.line : a \in {b \in AttemptsOf(hunks, "add") : b.line >= 0}}

\* two hunks have been walked, one with a run of two add changes and one
\* with a del change: the block walk records one added line, the per-change
\* walk two, and both record the same removed line
C31_Witness ==
    /\ inOrder # NotWalked
    /\ Len(hunks) = 2
    /\ Len(inOrder.add) = 1
    /\ inOrder.add[1].blockLength = 2
    /\ Len(PerChangeForEach(hunks).add) = 2
    /\ Len(inOrder.remove) = 1
    /\ Keys(PerChangeForEach(hunks).remove) = Keys(inOrder.remove)

\* the number of changes an iteration of the outer loop consumes at cursor i
ConsumedAt(c, i) ==
    IF ChangeAt(c.changes, i) \in {"add", "del"}
    THEN MaxRun(c.changes, i, ChangeAt(c.changes, i))
    ELSE 1

\* C32: the walk of a hunk terminates: every iteration of the outer loop
\* advances the cursor by at least one position (by the run length for add
\* and del runs, by one for a context change and for a change of a type the
\* walk does not know, which moves neither counter), the cursor never
\* passes the number of changes, the loop is left only with the cursor equal
\* to it, and a walk that has begun reaches that point
C32_IterationStep ==
    /\ pc = "walk" /\ changeIndex < Len(chunk.changes) =>
          /\ pc' = "walk"
          /\ chunk' = chunk
          /\ changeIndex' = changeIndex + ConsumedAt(chunk, changeIndex)
          /\ changeIndex' > changeIndex
          /\ changeIndex' <= Len(chunk.changes)
          /\ ChangeAt(chunk.changes, changeIndex) \notin {"add", "del", "normal"} =>
                UNCHANGED <<actualNewLineCounter, actualOldLineCounter>>
    /\ pc = "walk" /\ pc' # "walk" => changeIndex = Len(chunk.changes)

C32_WalkTerminates ==
    /\ [][C32_IterationStep]_vars
    /\ (pc = "walk") ~> (pc = "walk" /\ changeIndex = Len(chunk.changes))

\* the hunk of the block collapsing example (seven changes, two runs) has
\* been walked to its end
C32_Witness ==
    /\ pc = "walk"
    /\ chunk = SampleChunk
    /\ changeIndex = Len(chunk.changes)
    /\ actualNewLineCounter = chunk.newStart + 5
    /\ actualOldLineCounter = chunk.oldStart + 4

(***************************************************************************)
(* Claims about publication, deactivation and the early returns.           *)
(***************************************************************************)
\* C33: publication is atomic with respect to the handlers: between two
\* awaits, where the handlers of other events run, every entry of the
\* registry is the complete result that an invocation which has returned
\* computed for that target, and the visible editors show what the registry
\* holds
C33_PublicationAtomic ==
    /\ \A u \in DOMAIN activeDecorations :
          \E s \in ScanIds :
              /\ scans[s].pc = "done"
              /\ u \in DOMAIN scans[s].allFileDecorations
              /\ activeDecorations[u] = ResultOf(scans[s].allFileDecorations)[u]
    /\ \A u \in VisibleEditors :
          editors[u] = IF u \in DOMAIN activeDecorations
                       THEN activeDecorations[u]
                       ELSE [add |-> <<>>, remove |-> <<>>]

\* invocation B has published an annotation for B.ts while invocation A,
\* which has recorded an annotation for A.ts, is still awaiting; the
\* registry holds B's entry alone and the editors show it
C33_Witness ==
    /\ scans["B"].pc = "done"
    /\ scans["A"].pc = "findFile"
    /\ "A.ts" \in DOMAIN scans["A"].allFileDecorations
    /\ Len(Adds(scans["A"].allFileDecorations, "A.ts")) = 1
    /\ DOMAIN activeDecorations = {"B.ts"}
    /\ Len(activeDecorations["B.ts"].add) = 1
    /\ editors["B.ts"] = activeDecorations["B.ts"]
    /\ editors["A.ts"].add = <<>>

\* C34: after deactivate has run the registry stays empty and the editors
\* show no decoration: an invocation that was in flight does not publish
\* when it returns
C34_EmptyAfterDeactivate ==
    deactivated => activeDecorations = EmptyMap /\ editors = NothingShown

\* C35: every diff file entry that resolves to a target file creates an
\* entry for that file in the scan result, also when its hunks record no
\* annotation; the entry stays in the accumulator, and the published
\* registry holds the file with the collections of its maps (empty when
\* nothing was recorded), so its size is not zero
C35_EntryKeptStep ==
    pc # "idle" => DOMAIN allFileDecorations \subseteq DOMAIN allFileDecorations'

C35_ResolvedEntryPublished ==
    /\ [][C35_EntryKeptStep]_vars
    /\ [](/\ pc \in {"chunks", "walk"} => Target \in DOMAIN allFileDecorations
          /\ pc = "done" =>
                /\ DOMAIN activeDecorations = DOMAIN allFileDecorations
                /\ \A u \in DOMAIN allFileDecorations :
                      activeDecorations[u] =
                          [add |-> ValuesOf(allFileDecorations[u].adds),
                           remove |-> ValuesOf(allFileDecorations[u].removes)]
                /\ allFileDecorations # EmptyMap => activeDecorations # EmptyMap)

\* a scan has ended whose only resolved entry had hunks that were walked
\* and recorded nothing: the registry holds A.ts with two empty collections
C35_Witness ==
    /\ pc = "done"
    /\ walked > 0
    /\ DOMAIN activeDecorations = {"A.ts"}
    /\ activeDecorations["A.ts"] = [add |-> <<>>, remove |-> <<>>]

\* C36: when processing of a patch file throws partway through, the
\* annotations its earlier entries and hunks recorded stay in the
\* accumulator, and the scan publishes them with its result
C36_ThrowStep ==
    (pc \in {"entries", "chunks"} /\ fileNameOuter \in errors' \ errors) =>
        /\ allFileDecorations' = allFileDecorations
        /\ pc' = "files"

C36_PartialResultsKept ==
    /\ [][C36_ThrowStep]_vars
    /\ [](pc = "done" =>
             \A u \in DOMAIN allFileDecorations :
                 /\ u \in DOMAIN activeDecorations
                 /\ activeDecorations[u] =
                        [add |-> ValuesOf(allFileDecorations[u].adds),
                         remove |-> ValuesOf(allFileDecorations[u].removes)])

\* a scan has ended and its registry holds an added line that a patch file
\* recorded before it threw
C36_Witness ==
    /\ pc = "done"
    /\ \E u \in DOMAIN activeDecorations :
          \E i \in 1..Len(activeDecorations[u].add) :
              activeDecorations[u].add[i].fileName \in errors

\* C37: a scan that finds no workspace folder, or whose readDirectory is
\* rejected, returns early: the return shows no error message and publishes
\* nothing, so the registry and the visible editors stay as the clear at the
\* start of the call left them; with no other invocation in flight since
\* the call the registry is empty and no visible editor shows an annotation
C37_EarlyReturnStep ==
    \A s \in ScanIds :
        /\ (~InFlight(s) /\ scans'[s] # scans[s] /\ scans'[s].pc = "done") =>
              /\ activeDecorations' = EmptyMap
              /\ editors' = NothingShown
              /\ errors' = errors
        /\ (scans[s].pc = "readDirectory" /\ scans'[s].pc = "done") =>
              /\ activeDecorations' = activeDecorations
              /\ editors' = editors
              /\ errors' = errors
              /\ s \notin overlapped =>
                    /\ activeDecorations' = EmptyMap
                    /\ editors' = NothingShown

C37_EarlyReturnPublishesNothing == [][C37_EarlyReturnStep]_vars

\* invocation B had published annotations; then invocation A was called
\* with no other in flight, its readDirectory was rejected, and it has
\* returned: the registry is empty and nothing is shown
C37_Witness ==
    /\ "unreadable" \in met
    /\ latest.scan = "A"
    /\ scans["A"].pc = "done"
    /\ "A" \notin overlapped
    /\ scans["B"].pc = "done"
    /\ scans["B"].allFileDecorations # EmptyMap
    /\ activeDecorations = EmptyMap
    /\ editors = NothingShown

====
